---- MODULE Spec2Model ----
(***************************************************************************)
(* Consensus engine of one sdag node: the joint cache with its computed    *)
(* properties, the main-chain worker (main_chain.rs), the serial-conflict  *)
(* detector (serial_check.rs), the business worker (business/mod.rs) and   *)
(* the finalization worker (finalization.rs).                              *)
(*                                                                         *)
(* Units are numbered 0, 1, 2, ... in the order the cache admitted them;   *)
(* unit 0 is genesis.  The state starts with genesis stable and sealed     *)
(* (mci 0), as after the bootstrap of a node.                              *)
(***************************************************************************)
EXTENDS Integers, Sequences, FiniteSets, TLC

\* ---------------------------------------------------------------- bounds
\* number of non-genesis units admitted in the full pipeline
MaxUnits == 6
\* number of non-genesis units admitted in the main-chain specification
ChainUnits == 7
\* parents named by one unit
MaxParents == 2
\* messages carried by one unit
MaxMsgs == 2
\* free joints of the DAG
MaxTips == 2
\* children of one unit
MaxChildren == 2
\* units of a run in which every unit is composed on the free units
LineUnits == 23
\* units of a run in which a second branch of coalition units follows the
\* units composed on the free units
ForkUnits == 42
\* the unit the second branch grows from
ForkPoint == 9
\* number of non-genesis units admitted in the specification of the static
\* properties
StaticUnits == 4
\* number of non-genesis units admitted in the specification of units
\* composed on recent units
RecentUnits == 9
\* how far below the highest level of the DAG a parent may be
RecentWindow == 1
\* units of a set find_best_joint is applied to in every order
MaxCandidates == 3
\* units of the user address in a run of the whole pipeline
MaxUserUnits == 2
\* parents of a unit of the user address
MaxUserParents == 1
\* units linked but not yet validated at any time
MaxPending == 2
\* units of the chain of single-witness units
WitnessLineUnits == 15
\* units above genesis in the line find_relative_stable_joint walks down
WalkUnits == 3
\* parents named by the unit whose linking is followed
MaxLinkParents == 3
\* units of a run in which every unit names a last ball unit that is stable
\* relative to it
LastBallRunUnits == 6
\* the highest mci of a unit whose skiplist is computed
MaxMci == 1000
\* parents of the unit whose finalization is followed
MaxBallParents == 3
\* ready units that are validated by tasks of their own
ValidateUnits == 2
\* keys of the KV store
MaxKey == 2
\* recipients of the headers commission of one unit
MaxRecipients == 3

\* ---------------------------------------------------------------- Level
\* joint::Level: an ordinal with two special values.  INVALID is the default
\* of every property and compares with nothing (not even itself); MINIMUM is
\* below every valid level and MINIMUM + 1 = 0.
INVALID == -2
MINIMUM == -1

IsValid(l) == l >= 0
Comparable(a, b) == a # INVALID /\ b # INVALID
LvEq(a, b) == Comparable(a, b) /\ a = b
LvLt(a, b) == Comparable(a, b) /\ a < b
LvLe(a, b) == Comparable(a, b) /\ a <= b
LvGt(a, b) == Comparable(a, b) /\ a > b
LvGe(a, b) == Comparable(a, b) /\ a >= b

\* ---------------------------------------------------------------- witnesses
WITNESSES_NUM == 12
MAJORITY_OF_WITNESSES == 7
MY_WITNESSES == 1..WITNESSES_NUM
\* a coalition of witnesses that signs one unit together, and an ordinary user
Coalition == 1..MAJORITY_OF_WITNESSES
User == WITNESSES_NUM + 1
GENESIS == 0

\* the unit hash is unrelated to the order of arrival
UnitHash(u) == (u * 7) % 11

Max(S) == CHOOSE x \in S : \A y \in S : y <= x
Min(S) == CHOOSE x \in S : \A y \in S : x <= y

\* a finite set as the sequence ordered by the key function K, injective on it
RECURSIVE SortBy(_, _)
SortBy(S, K) ==
    IF S = {} THEN <<>>
    ELSE LET m == CHOOSE x \in S : \A y \in S : K[x] <= K[y]
         IN  <<m>> \o SortBy(S \ {m}, K)

\* the function f with the value v at u
Extend(f, u, v) == [x \in DOMAIN f \cup {u} |-> IF x = u THEN v ELSE f[x]]

\* the elements of a sequence, and the sequences that list each element of
\* the set S once
Elements(q) == {q[i] : i \in 1..Len(q)}
Orderings(S) ==
    {q \in [1..Cardinality(S) -> S] : \A x \in S : \E i \in 1..Cardinality(S) : q[i] = x}

\* ---------------------------------------------------------------- state
VARIABLES
    unit,               \* SDAG_CACHE: id -> the immutable unit
    props,              \* id -> JointProperty
    ball,               \* id -> the joint's ball, or NoBall
    ready_rx,           \* channel of the main-chain worker
    last_stable_level,  \* local of start_main_chain_worker
    mc_unit_hash,       \* SDAG_CACHE mci -> unit index
    stable_rx,          \* channel of the business worker
    final_rx,           \* channel of the finalization worker
    business_state,     \* BUSINESS_CACHE.business_state (stable mirror)
    temp_business_state,\* BUSINESS_CACHE.temp_business_state (tentative mirror)
    last_stable_self_joint, \* GlobalState: address -> unit
    aborted,            \* ::std::process::abort() was called
    panicked,           \* the business worker ended in unreachable!()
    promoted,           \* history: calls of mark_main_chain_joint_stable, <<mci, unit>>
    pushed,             \* history: (mci, sub_mci) of each push_stable_joint
    business_log,       \* history: what the business worker did with each unit
    ball_unit_hash,     \* SDAG_CACHE ball -> unit index
    skiplist_call,      \* the locals of one call of calc_skiplist
    ball_call,          \* the locals of one call of finalize_joint and calc_ball
    validate_call,      \* unit -> the locals of its call of validate_unstable_joint
    rebuild_call,       \* the locals of one call of rebuild_from_genesis or rebuild_from_db
    kv_store,           \* KV_STORE: the two trees, and the last read
    recipients_call,    \* one call of validate_headers_commission_recipients
    history_call,       \* the locals of one call of get_stable_history
    show_call,          \* one call of show_history of the wallet
    parent_call,        \* one unit whose parents are being attached by add_parent
    walk_call           \* the locals of one call of find_relative_stable_joint

\* the state of the cache and of the three workers
pipeline_vars ==
    <<unit, props, ball, ready_rx, last_stable_level, mc_unit_hash, stable_rx,
      final_rx, business_state, temp_business_state, last_stable_self_joint,
      aborted, panicked, promoted, pushed, business_log, ball_unit_hash>>

\* the state of the functions that are followed step by step
task_vars == <<history_call, show_call, parent_call, walk_call>>

call_vars ==
    <<skiplist_call, ball_call, validate_call, rebuild_call, kv_store, recipients_call,
      task_vars>>

vars == <<pipeline_vars, call_vars>>

Units == DOMAIN unit
NoBall == [unit |-> -1, parent_balls |-> <<>>, skiplist_balls |-> <<>>, bad |-> FALSE]
NoUnit == -1

\* JointSequence
Sequences == {"Good", "TempBad", "NonserialBad", "FinalBad", "NoCommission"}

\* JointProperty::default()
DefaultProps ==
    [level |-> INVALID, best_parent_unit |-> NoUnit, wl |-> INVALID, min_wl |-> INVALID,
     is_wl_increased |-> FALSE, is_min_wl_increased |-> FALSE,
     mci |-> INVALID, limci |-> INVALID, sub_mci |-> INVALID,
     sequence |-> "Good", is_stable |-> FALSE]

\* the properties cacl_static_props computes for genesis: its stand-in best
\* parent has level 0, wl 0 and min_wl MINIMUM; mci = limci = sub_mci = 0 and
\* is_stable are what the pipeline has given it
GenesisProps ==
    [level |-> MINIMUM + 1, best_parent_unit |-> NoUnit, wl |-> 0, min_wl |-> 0,
     is_wl_increased |-> FALSE, is_min_wl_increased |-> TRUE,
     mci |-> 0, limci |-> 0, sub_mci |-> 0,
     sequence |-> "Good", is_stable |-> TRUE]

\* the properties of genesis when validate_ready_joint hands it to the
\* main-chain worker: the static ones, with mci, limci and sub_mci unset
GenesisReadyProps ==
    [GenesisProps EXCEPT !.mci = INVALID, !.limci = INVALID, !.sub_mci = INVALID,
                         !.is_stable = FALSE]

\* the properties of the stand-in best parent that get_best_parent makes for
\* genesis: the default ones with level 0, wl 0 and min_wl MINIMUM
FakeParentProps == [DefaultProps EXCEPT !.level = 0, !.wl = 0, !.min_wl = MINIMUM]

\* the single output of genesis that payments of the model spend
GenesisOutput == <<GENESIS, 1>>

GenesisUnit ==
    [parent_units |-> {}, authors |-> MY_WITNESSES, messages |-> <<>>,
     last_ball_unit |-> NoUnit]

\* JointData.parents / JointData.children / is_free, over a cache U
Parents(U, u) == U[u].parent_units
Children(U, u) == {c \in DOMAIN U : u \in U[c].parent_units}
is_free(U, u) == Children(U, u) = {}

\* JointData::is_on_main_chain
is_on_main_chain(P, u) == LvEq(P[u].mci, P[u].limci)

\* ------------------------------------------------------- static properties
\* a variant that starts from the lowest parent
calc_level_lowest_parent(U, P, u) ==
    LET lv == {P[p].level : p \in Parents(U, u)}
    IN  (IF lv = {} THEN MINIMUM ELSE Min(lv)) + 1

\* JointData::calc_level
calc_level(U, P, u) ==
    LET lv == {P[p].level : p \in Parents(U, u)}
    IN  (IF lv = {} THEN MINIMUM ELSE Max(lv)) + 1

\* a variant that prefers the higher level
is_precedence_than_higher_level(P, a, b) ==
    IF P[a].wl # P[b].wl THEN P[a].wl > P[b].wl
    ELSE IF P[a].level # P[b].level THEN P[a].level > P[b].level
    ELSE UnitHash(a) < UnitHash(b)

\* JointData::is_precedence_than
is_precedence_than(P, a, b) ==
    IF P[a].wl # P[b].wl THEN P[a].wl > P[b].wl
    ELSE IF P[a].level # P[b].level THEN P[a].level < P[b].level
    ELSE UnitHash(a) < UnitHash(b)

\* find_best_joint over the joints of a sequence, in its order
RECURSIVE best_fold(_, _, _)
best_fold(P, best, rest) ==
    IF rest = <<>> THEN best
    ELSE best_fold(P, IF is_precedence_than(P, Head(rest), best) THEN Head(rest) ELSE best,
                   Tail(rest))

find_best_joint(P, iter) ==
    IF iter = <<>> THEN NoUnit ELSE best_fold(P, Head(iter), Tail(iter))

\* JointData::calc_best_parent: the parents list is in arrival order
calc_best_parent(U, P, u) == find_best_joint(P, SortBy(Parents(U, u), [p \in Parents(U, u) |-> p]))

\* a variant that is content with one witness less than the majority
RECURSIVE relative_stable_walk_one_short(_, _, _, _)
relative_stable_walk_one_short(U, P, j, valid_witnesses) ==
    LET seen == valid_witnesses \cup (U[j].authors \cap MY_WITNESSES)
    IN  IF Cardinality(seen) >= MAJORITY_OF_WITNESSES - 1 THEN j
        ELSE relative_stable_walk_one_short(U, P, P[j].best_parent_unit, seen)

\* a variant that counts the witnesses of each unit on its own
RECURSIVE relative_stable_walk_unaccumulated(_, _, _, _)
relative_stable_walk_unaccumulated(U, P, j, valid_witnesses) ==
    LET seen == U[j].authors \cap MY_WITNESSES
    IN  IF Cardinality(seen) >= MAJORITY_OF_WITNESSES THEN j
        ELSE relative_stable_walk_unaccumulated(U, P, P[j].best_parent_unit, seen)

\* JointData::find_relative_stable_joint, from best parent bp on
RECURSIVE relative_stable_walk(_, _, _, _)
relative_stable_walk(U, P, j, valid_witnesses) ==
    LET seen == valid_witnesses \cup (U[j].authors \cap MY_WITNESSES)
    IN  IF Cardinality(seen) >= MAJORITY_OF_WITNESSES THEN j
        ELSE relative_stable_walk(U, P, P[j].best_parent_unit, seen)

find_relative_stable_joint(U, P, bp) == relative_stable_walk(U, P, bp, {})

\* a variant that raises is_min_wl_increased with the witnessed level
cacl_static_props_wl_flag(U, P, u) ==
    LET level == calc_level(U, P, u)
        bp    == calc_best_parent(U, P, u)
        rsj   == find_relative_stable_joint(U, P, bp)
        wl    == P[rsj].level
        minwl == P[rsj].wl
    IN  [P[u] EXCEPT !.level = level, !.best_parent_unit = bp,
                     !.wl = wl, !.min_wl = minwl,
                     !.is_wl_increased = LvGt(wl, P[bp].wl),
                     !.is_min_wl_increased = LvGt(wl, P[bp].wl)]

\* JointData::cacl_static_props of a non-genesis unit
cacl_static_props(U, P, u) ==
    LET level == calc_level(U, P, u)
        bp    == calc_best_parent(U, P, u)
        rsj   == find_relative_stable_joint(U, P, bp)
        wl    == P[rsj].level
        minwl == P[rsj].wl
    IN  [P[u] EXCEPT !.level = level, !.best_parent_unit = bp,
                     !.wl = wl, !.min_wl = minwl,
                     !.is_wl_increased = LvGt(wl, P[bp].wl),
                     !.is_min_wl_increased = LvGt(minwl, P[bp].min_wl)]

\* ------------------------------------------------------- main chain
Last(q) == q[Len(q)]
Front(q) == SubSeq(q, 1, Len(q) - 1)

\* children of j that name j as their best parent
best_children(U, P, j) == {c \in Children(U, j) : P[c].best_parent_unit = j}

\* build_unstable_main_chain_from_joint: <<joint, its best parent, ...>> up to,
\* and without, the first unit that is on the main chain (chain_foot)
RECURSIVE unstable_chain(_, _)
unstable_chain(P, joint) ==
    IF is_on_main_chain(P, joint) THEN <<>>
    ELSE <<joint>> \o unstable_chain(P, P[joint].best_parent_unit)

\* build_unstable_main_chain_from_joint never leaves its loop: the walk comes
\* to a genesis that is not on the main chain, whose best parent is the
\* stand-in, whose best parent is another stand-in, none on the main chain
RECURSIVE unstable_chain_is_endless(_, _)
unstable_chain_is_endless(P, joint) ==
    IF is_on_main_chain(P, joint) THEN FALSE
    ELSE IF joint = GENESIS THEN ~ LvEq(FakeParentProps.mci, FakeParentProps.limci)
    ELSE unstable_chain_is_endless(P, P[joint].best_parent_unit)

RECURSIVE chain_foot(_, _)
chain_foot(P, joint) ==
    IF is_on_main_chain(P, joint) THEN joint ELSE chain_foot(P, P[joint].best_parent_unit)

\* calc_max_alt_level, first loop: the units popped from the stack `joints`
\* that are below end_level
RECURSIVE alt_walk(_, _, _, _, _)
alt_walk(U, P, joints, end_level, seen) ==
    LET below == {j \in joints : ~ LvGe(P[j].level, end_level)}
    IN  IF below = {} THEN seen
        ELSE alt_walk(U, P, UNION {best_children(U, P, j) : j \in below}, end_level,
                      seen \cup below)

\* calc_max_alt_level, second loop: the units popped from the queue whose
\* level is above the stable point
RECURSIVE past_walk(_, _, _, _, _)
past_walk(U, P, joints, stable_point_level, seen) ==
    LET above == {j \in joints : ~ LvLe(P[j].level, stable_point_level)} \ seen
    IN  IF above = {} THEN seen
        ELSE past_walk(U, P, UNION {Parents(U, j) : j \in above}, stable_point_level,
                       seen \cup above)

\* calc_max_alt_level: the alternative best children below end that raise wl
alt_candidates(U, P, last_ball, end) ==
    LET stable_point == P[last_ball].best_parent_unit
        alternative_roots == best_children(U, P, stable_point) \ {last_ball}
    IN  {j \in alt_walk(U, P, alternative_roots, P[end].level, {}) : P[j].is_wl_increased}

\* a variant that leaves the alternative candidates out of the bound
stable_point_level_only(U, P, last_ball, end) ==
    P[P[last_ball].best_parent_unit].level

\* calc_max_alt_level: the bound the first loop computes
max_alt_level_possible(U, P, last_ball, end) ==
    Max({P[P[last_ball].best_parent_unit].level}
            \cup {P[j].level : j \in alt_candidates(U, P, last_ball, end)})

\* calc_max_alt_level: the result of the walk over the past of end
restricted_max_alt_level(U, P, last_ball, end) ==
    LET stable_point_level == P[P[last_ball].best_parent_unit].level
        in_past == past_walk(U, P, {end}, stable_point_level, {})
    IN  Max({stable_point_level}
                \cup {P[j].level : j \in alt_candidates(U, P, last_ball, end) \cap in_past})

calc_max_alt_level(U, P, last_ball, end) ==
    IF LvGt(P[end].min_wl, max_alt_level_possible(U, P, last_ball, end))
    THEN max_alt_level_possible(U, P, last_ball, end)
    ELSE restricted_max_alt_level(U, P, last_ball, end)

\* mark_main_chain_joint_stable, first loop: the units that get the mci
RECURSIVE collect_unindexed(_, _, _, _)
collect_unindexed(U, P, joints, sorted) ==
    LET fresh == {j \in joints : ~ IsValid(P[j].mci)} \ sorted
    IN  IF fresh = {} THEN sorted
        ELSE collect_unindexed(U, P, UNION {Parents(U, j) : j \in fresh}, sorted \cup fresh)

\* the comparison of sort_by: first level, then unit hash
SortKey(P, S) == [j \in S |-> P[j].level * 11 + UnitHash(j)]

\* the limci a unit takes from its parents
parents_limci(U, P, j) ==
    Max({0} \cup {P[p].limci : p \in {q \in Parents(U, j) : IsValid(P[q].limci)}})

\* a variant that pushes the units without giving them the mci
RECURSIVE assign_mci_unset(_, _, _, _, _)
assign_mci_unset(U, M, sorted, sub_mci, mci) ==
    IF sorted = <<>> THEN M
    ELSE LET j  == Head(sorted)
             P  == M.props
             lm == IF ~ IsValid(P[j].limci) THEN parents_limci(U, P, j) ELSE P[j].limci
             P2 == [P EXCEPT ![j].sub_mci = sub_mci, ![j].limci = lm]
         IN  assign_mci_unset(U,
                        [M EXCEPT !.props = P2,
                                  !.stable_rx = Append(@, j),
                                  !.pushed = Append(@, <<mci, sub_mci, j>>)],
                        Tail(sorted), sub_mci + 1, mci)

\* mark_main_chain_joint_stable, second loop.  M is the worker's view of the
\* shared state: props, the business channel, the mci index, the histories.
RECURSIVE assign_mci(_, _, _, _, _)
assign_mci(U, M, sorted, sub_mci, mci) ==
    IF sorted = <<>> THEN M
    ELSE LET j  == Head(sorted)
             P  == M.props
             lm == IF ~ IsValid(P[j].limci) THEN parents_limci(U, P, j) ELSE P[j].limci
             P2 == [P EXCEPT ![j].sub_mci = sub_mci, ![j].limci = lm, ![j].mci = mci]
         IN  assign_mci(U,
                        [M EXCEPT !.props = P2,
                                  !.stable_rx = Append(@, j),
                                  !.pushed = Append(@, <<mci, sub_mci, j>>)],
                        Tail(sorted), sub_mci + 1, mci)

mark_main_chain_joint_stable(U, M, main_chain_joint, mci) ==
    LET P1 == [M.props EXCEPT ![main_chain_joint].limci = mci]
        sorted == collect_unindexed(U, P1, {main_chain_joint}, {})
        M2 == assign_mci(U, [M EXCEPT !.props = P1],
                         SortBy(sorted, SortKey(P1, sorted)), 0, mci)
    IN  [M2 EXCEPT !.mc_unit_hash = [m \in DOMAIN @ \cup {mci} |->
                                        IF m = mci THEN main_chain_joint ELSE @[m]],
                   !.promoted = Append(@, <<mci, main_chain_joint>>)]

\* a variant of the inner loop that leaves one mci out at every promotion
RECURSIVE forward_to_skipping_mci(_, _, _)
forward_to_skipping_mci(U, R, mc_free_joint) ==
    IF R.unstable_mc_joints = <<>> THEN R
    ELSE LET unstable_mc_joint == Last(R.unstable_mc_joints)
             P == R.M.props
             min_wl == P[mc_free_joint].min_wl
             max_alt_level == calc_max_alt_level(U, P, unstable_mc_joint, mc_free_joint)
         IN  IF LvGt(min_wl, max_alt_level)
             THEN forward_to_skipping_mci(U,
                    [M |-> mark_main_chain_joint_stable(U, R.M, unstable_mc_joint,
                                                        P[R.stable_joint].mci + 2),
                     stable_joint |-> unstable_mc_joint,
                     last_stable_level |-> P[unstable_mc_joint].level,
                     unstable_mc_joints |-> Front(R.unstable_mc_joints)],
                    mc_free_joint)
             ELSE R

\* update_stable_main_chain, inner loop for one end joint.  R carries the
\* shared state M, stable_joint, last_stable_level and unstable_mc_joints.
RECURSIVE forward_to(_, _, _)
forward_to(U, R, mc_free_joint) ==
    IF R.unstable_mc_joints = <<>> THEN R
    ELSE LET unstable_mc_joint == Last(R.unstable_mc_joints)
             P == R.M.props
             min_wl == P[mc_free_joint].min_wl
             max_alt_level == calc_max_alt_level(U, P, unstable_mc_joint, mc_free_joint)
         IN  IF LvGt(min_wl, max_alt_level)
             THEN forward_to(U,
                    [M |-> mark_main_chain_joint_stable(U, R.M, unstable_mc_joint,
                                                        P[R.stable_joint].mci + 1),
                     stable_joint |-> unstable_mc_joint,
                     last_stable_level |-> P[unstable_mc_joint].level,
                     unstable_mc_joints |-> Front(R.unstable_mc_joints)],
                    mc_free_joint)
             ELSE R

\* update_stable_main_chain, outer loop: end_joints is popped from its end
RECURSIVE forward_main_chain(_, _, _)
forward_main_chain(U, R, end_joints) ==
    IF end_joints = <<>> THEN R
    ELSE forward_main_chain(U, forward_to(U, R, Last(end_joints)), Front(end_joints))

update_stable_main_chain(U, M, stable_joint, unstable_mc_joints) ==
    LET P == M.props
        level == P[stable_joint].level
        end_joints == SelectSeq(unstable_mc_joints,
                          LAMBDA j : P[j].is_min_wl_increased /\ LvGt(P[j].min_wl, level))
    IN  forward_main_chain(U,
            [M |-> M, stable_joint |-> stable_joint, last_stable_level |-> level,
             unstable_mc_joints |-> unstable_mc_joints],
            end_joints)

\* update_main_chain
update_main_chain(U, M, joint) ==
    update_stable_main_chain(U, M, chain_foot(M.props, joint), unstable_chain(M.props, joint))

\* ------------------------------------------------------- ancestry
\* the result of PartialOrd::partial_cmp
Ordering == {"Less", "Equal", "Greater", "None", "Unreachable"}

\* UnitProps::not_included(self = a, other = b)
not_included(P, a, b) ==
    \/ LvLe(P[a].level, P[b].level)
    \/ LvLt(P[a].wl, P[b].wl)
    \/ LvLt(P[a].mci, P[b].mci)
    \/ LvLt(P[a].limci, P[b].limci)
    \/ (P[a].is_stable /\ ~ P[b].is_stable)

\* PartialOrd for UnitProps: partial_cmp(self = a, other = b)
props_partial_cmp(P, a, b) ==
    IF a = b THEN "Equal"
    ELSE IF LvGe(P[b].limci, P[a].mci) THEN "Less"
    ELSE IF LvGe(P[a].limci, P[b].mci) THEN "Greater"
    ELSE "None"

\* UnitProps::is_ancestor(self, later_joints): the joints popped from the queue
RECURSIVE ancestor_walk(_, _, _, _, _)
ancestor_walk(U, P, self, joints, visited) ==
    IF joints = {} THEN FALSE
    ELSE IF \E j \in joints : props_partial_cmp(P, j, self) \in {"Equal", "Greater"} THEN TRUE
    ELSE LET open == {j \in joints : /\ props_partial_cmp(P, j, self) = "None"
                                      /\ ~ not_included(P, j, self)}
             next == (UNION {Parents(U, j) : j \in open}) \ visited
         IN  ancestor_walk(U, P, self, next, visited \cup next)

is_ancestor(U, P, self, later_joints) == ancestor_walk(U, P, self, later_joints, {})

\* PartialOrd for JointData: partial_cmp(self = a, other = b)
joint_partial_cmp(U, P, a, b) ==
    IF a = b THEN "Equal"
    ELSE IF is_free(U, a) /\ is_free(U, b) THEN "None"
    ELSE IF props_partial_cmp(P, a, b) # "None" THEN props_partial_cmp(P, a, b)
    ELSE IF LvGt(P[a].level, P[b].level)
         THEN IF not_included(P, a, b) THEN "None"
              ELSE IF is_ancestor(U, P, b, Parents(U, a)) THEN "Greater" ELSE "None"
    ELSE IF LvLt(P[a].level, P[b].level)
         THEN IF not_included(P, b, a) THEN "None"
              ELSE IF is_ancestor(U, P, a, Parents(U, b)) THEN "Less" ELSE "None"
    ELSE "Unreachable"

\* ------------------------------------------------------- serial check
\* get_unstable_ancestor_units: queue holds units already put into visited
RECURSIVE unstable_walk(_, _, _, _, _)
unstable_walk(U, P, queue, visited, result) ==
    IF queue = {} THEN result
    ELSE LET unstable == {j \in queue : ~ P[j].is_stable}
             next == (UNION {Parents(U, j) : j \in unstable}) \ visited
         IN  unstable_walk(U, P, next, visited \cup next, result \cup unstable)

get_unstable_ancestor_units(U, P, joints, visited) ==
    unstable_walk(U, P, joints \ visited, visited \cup joints, {})

\* get_descendant_units
RECURSIVE descendant_walk(_, _, _)
descendant_walk(U, queue, visited) ==
    LET next == (UNION {Children(U, j) : j \in queue}) \ visited
    IN  IF next = {} THEN visited ELSE descendant_walk(U, next, visited \cup next)

get_descendant_units(U, joint) == descendant_walk(U, {joint}, {})

get_all_free_joints(U) == {j \in DOMAIN U : is_free(U, j)}

\* a variant that leaves the descendants of the joint in the set
no_see_units_with_descendants(U, P, joint) ==
    get_unstable_ancestor_units(U, P, get_all_free_joints(U),
                                get_unstable_ancestor_units(U, P, {joint}, {}))

\* the set A5 of is_unstable_joint_non_serial
no_include_relationship_units(U, P, joint) ==
    LET unstable_ancestors == get_unstable_ancestor_units(U, P, {joint}, {})
        no_see_units == get_unstable_ancestor_units(U, P, get_all_free_joints(U),
                                                    unstable_ancestors)
        descendants == IF is_free(U, joint) THEN {} ELSE get_descendant_units(U, joint)
    IN  no_see_units \ descendants

is_authored_by_any_addr(U, j, addresses) == U[j].authors \cap addresses # {}

is_unstable_joint_non_serial(U, P, joint) ==
    \E u \in no_include_relationship_units(U, P, joint) :
        /\ is_authored_by_any_addr(U, u, U[joint].authors)
        /\ P[u].sequence # "FinalBad"

\* ------------------------------------------------------- business state
\* A mirror is the set of unspent outputs.  Message i of unit u is a payment
\* that spends the output U[u].messages[i] and creates the output <<u, i>>.
validate_message(S, U, u, i) == U[u].messages[i] \in S

apply_message(S, U, u, i) ==
    IF U[u].messages[i] \in S
    THEN [ok |-> TRUE, state |-> (S \ {U[u].messages[i]}) \cup {<<u, i>>}]
    ELSE [ok |-> FALSE, state |-> S]

revert_message(S, U, u, i) ==
    IF <<u, i>> \in S
    THEN [ok |-> TRUE, state |-> (S \ {<<u, i>>}) \cup {U[u].messages[i]}]
    ELSE [ok |-> FALSE, state |-> S]

\* the loops `for i in 0..messages.len()` that go on after an error
RECURSIVE apply_all(_, _, _, _)
apply_all(S, U, u, i) ==
    IF i > Len(U[u].messages) THEN S
    ELSE apply_all(apply_message(S, U, u, i).state, U, u, i + 1)

RECURSIVE revert_all(_, _, _, _)
revert_all(S, U, u, i) ==
    IF i > Len(U[u].messages) THEN S
    ELSE revert_all(revert_message(S, U, u, i).state, U, u, i + 1)

\* BusinessCache::validate_unstable_joint, the loop over the messages
RECURSIVE validate_unstable_messages(_, _, _, _)
validate_unstable_messages(T, U, u, i) ==
    IF i > Len(U[u].messages) THEN [sequence |-> "Good", temp |-> T]
    ELSE IF ~ validate_message(T, U, u, i) THEN [sequence |-> "TempBad", temp |-> T]
    ELSE validate_unstable_messages(apply_message(T, U, u, i).state, U, u, i + 1)

validate_unstable_joint(U, P, T, u) ==
    IF is_unstable_joint_non_serial(U, P, u)
    THEN [sequence |-> "NonserialBad", temp |-> T]
    ELSE validate_unstable_messages(T, U, u, 1)

\* BusinessCache::is_include_last_stable_self_joint: "Ok", "Err" or
\* "Unreachable", decided by the first author, in the order of the unit's
\* authors, whose last stable self joint the unit is not greater than
is_include_last_stable_self_joint(U, P, L, u) ==
    LET cmp(a) == joint_partial_cmp(U, P, u, L[a])
        failing == {a \in U[u].authors \cap DOMAIN L : cmp(a) # "Greater"}
    IN  IF failing = {} THEN "Ok"
        ELSE IF cmp(Min(failing)) = "Unreachable" THEN "Unreachable"
        ELSE "Err"

\* BusinessCache::validate_stable_joint
validate_stable_joint(U, P, S, L, u) ==
    IF P[u].sequence = "FinalBad" THEN "Err"
    ELSE IF is_include_last_stable_self_joint(U, P, L, u) # "Ok"
         THEN is_include_last_stable_self_joint(U, P, L, u)
    ELSE IF \E i \in 1..Len(U[u].messages) : ~ validate_message(S, U, u, i) THEN "Err"
    ELSE "Ok"

\* GlobalState::update_last_stable_self_joint
update_last_stable_self_joint(U, L, u) ==
    [a \in DOMAIN L \cup U[u].authors |-> IF a \in U[u].authors THEN u ELSE L[a]]

\* BusinessCache::apply_stable_joint, the loop over the messages: stops at
\* the first error
RECURSIVE apply_stable_messages(_, _, _, _)
apply_stable_messages(S, U, u, i) ==
    IF i > Len(U[u].messages) THEN [ok |-> TRUE, state |-> S]
    ELSE IF ~ apply_message(S, U, u, i).ok THEN [ok |-> FALSE, state |-> S]
    ELSE apply_stable_messages(apply_message(S, U, u, i).state, U, u, i + 1)

\* ------------------------------------------------------- KV store
\* A JSON text is the sequence of its <<name, value>> members.
\* serde_json::to_string of a Joint: ball and unsigned are left out when
\* None, skiplist_units when empty
joint_to_string(j) ==
    (IF j.ball = NoBall THEN <<>> ELSE <<(<<"ball", j.ball>>)>>)
    \o (IF j.skiplist_units = <<>> THEN <<>>
        ELSE <<(<<"skiplist_units", j.skiplist_units>>)>>)
    \o <<(<<"unit", j.unit>>)>>
    \o (IF j.unsigned = "None" THEN <<>> ELSE <<(<<"unsigned", j.unsigned>>)>>)

\* the value of the member `name` of a JSON text, or the default
member_or(text, name, default) ==
    IF \E i \in 1..Len(text) : text[i][1] = name
    THEN text[CHOOSE i \in 1..Len(text) : text[i][1] = name][2]
    ELSE default

\* serde_json::from_str of a Joint
joint_from_str(text) ==
    [ball |-> member_or(text, "ball", NoBall),
     skiplist_units |-> member_or(text, "skiplist_units", <<>>),
     unit |-> member_or(text, "unit", NoUnit),
     unsigned |-> member_or(text, "unsigned", "None")]

\* the members of a JointProperty, in the order of the struct
PropertyNames ==
    <<"level", "best_parent_unit", "wl", "min_wl", "is_wl_increased",
      "is_min_wl_increased", "mci", "limci", "sub_mci", "sequence", "is_stable">>

\* serde_json::to_string and from_str of a JointProperty
property_to_string(p) == [i \in 1..Len(PropertyNames) |-> <<PropertyNames[i], p[PropertyNames[i]]>>]

property_from_str(text) ==
    [name \in Elements(PropertyNames) |-> member_or(text, name, DefaultProps[name])]

\* a variant of Tree::set that keeps what the key already holds
tree_set_once(tree, key, value) ==
    IF key \in DOMAIN tree THEN tree ELSE Extend(tree, key, value)

\* sled Tree::set and Tree::get
tree_set(tree, key, value) == Extend(tree, key, value)

tree_get(tree, key) ==
    IF key \in DOMAIN tree THEN [some |-> TRUE, value |-> tree[key]]
    ELSE [some |-> FALSE, value |-> <<>>]

\* ------------------------------------------------------- commission recipients
\* earned_headers_commission_share is a 32-bit unsigned integer, written
\* <<high, low>> with two 16-bit halves
LIMB == 65536
U32(n) == <<0, n>>
U32_HALF == <<LIMB \div 2, 0>>

\* the sum of two shares in unbounded arithmetic: the high half may pass LIMB
wide_add(a, b) ==
    <<a[1] + b[1] + ((a[2] + b[2]) \div LIMB), (a[2] + b[2]) % LIMB>>

\* `+=` on u32: the wrapped sum, and whether the sum overflowed
wrapping_add(a, b) == <<wide_add(a, b)[1] % LIMB, wide_add(a, b)[2]>>
add_overflows(a, b) == wide_add(a, b)[1] >= LIMB

\* `total_earned_headers_commission_share != 100`
total_is_100(total) == total = U32(100)

\* object_hash::is_chash_valid: address 0 is the empty string, the addresses
\* 1 and 3 carry a valid checksum, address 2 does not
is_chash_valid(address) == address \in {1, 3}

\* validate_headers_commission_recipients, the loop from recipient i on:
\* "Ok", "Err", or "Panic" when the sum overflows in a build with overflow
\* checks
RECURSIVE recipients_loop(_, _, _, _, _)
recipients_loop(recipients, i, total, prev_address, overflow_checks) ==
    IF i > Len(recipients) THEN (IF total_is_100(total) THEN "Ok" ELSE "Err")
    ELSE IF recipients[i].address <= prev_address THEN "Err"
    ELSE IF ~ is_chash_valid(recipients[i].address) THEN "Err"
    ELSE IF overflow_checks /\ add_overflows(total, recipients[i].share) THEN "Panic"
    ELSE recipients_loop(recipients, i + 1, wrapping_add(total, recipients[i].share),
                         recipients[i].address, overflow_checks)

validate_headers_commission_recipients(authors, recipients, overflow_checks) ==
    IF authors > 1 /\ recipients = <<>> THEN "Err"
    ELSE IF recipients = <<>> THEN "Ok"
    ELSE recipients_loop(recipients, 1, U32(0), 0, overflow_checks)

\* ------------------------------------------------------- rebuild
\* SDAG_CACHE.get_joints_by_mci: the units of the mci, in the order of
\* their sub_mci
get_joints_by_mci(P, mci) ==
    LET joints == {u \in DOMAIN P : LvEq(P[u].mci, mci)}
    IN  SortBy(joints, [u \in joints |-> P[u].sub_mci])

\* apply_stable_joint on a new BusinessCache: the issue of genesis creates
\* the genesis output, a payment is applied message by message
rebuild_apply(S, U, u) ==
    IF u = GENESIS THEN [ok |-> TRUE, state |-> S \cup {GenesisOutput}]
    ELSE apply_stable_messages(S, U, u, 1)

\* rebuild_from_genesis, the loop over the units of one mci: a unit that is
\* not Good is skipped, an error of apply_stable_joint ends the rebuild
RECURSIVE rebuild_joints(_, _, _, _)
rebuild_joints(S, U, P, next_joints) ==
    IF next_joints = <<>> THEN [ok |-> TRUE, state |-> S]
    ELSE IF P[Head(next_joints)].sequence # "Good"
         THEN rebuild_joints(S, U, P, Tail(next_joints))
    ELSE IF ~ rebuild_apply(S, U, Head(next_joints)).ok THEN [ok |-> FALSE, state |-> S]
    ELSE rebuild_joints(rebuild_apply(S, U, Head(next_joints)).state, U, P,
                        Tail(next_joints))

\* rebuild_from_genesis, the loop over mci = 0, 1, ... up to the first mci
\* without units
RECURSIVE rebuild_from_mci(_, _, _, _)
rebuild_from_mci(S, U, P, mci) ==
    IF get_joints_by_mci(P, mci) = <<>> THEN [ok |-> TRUE, state |-> S]
    ELSE IF ~ rebuild_joints(S, U, P, get_joints_by_mci(P, mci)).ok
         THEN [ok |-> FALSE, state |-> S]
    ELSE rebuild_from_mci(rebuild_joints(S, U, P, get_joints_by_mci(P, mci)).state,
                          U, P, mci + 1)

\* BusinessCache::rebuild_from_genesis: from BusinessCache::default()
rebuild_from_genesis(U, P) == rebuild_from_mci({}, U, P, 0)

\* BusinessCache::rebuild_from_db: BusinessCache::default()
rebuild_from_db == [ok |-> TRUE, state |-> {}]

\* ------------------------------------------------------- finalization
\* a variant that stops after the first devisor
similar_mcis_first_only(mci, devisor) ==
    IF mci % devisor # 0 \/ mci = 0 THEN {} ELSE {mci - devisor}

\* get_similar_mcis
RECURSIVE similar_mcis(_, _)
similar_mcis(mci, devisor) ==
    IF mci % devisor # 0 \/ mci = 0 THEN {}
    ELSE {mci - devisor} \cup similar_mcis(mci, devisor * 10)

get_similar_mcis(mci) == similar_mcis(mci, 10)

\* calc_skiplist: the units, or an error when an mci has no unit
calc_skiplist(P, MC, u) ==
    IF ~ is_on_main_chain(P, u) THEN [ok |-> TRUE, units |-> {}]
    ELSE IF \E m \in get_similar_mcis(P[u].mci) : m \notin DOMAIN MC
         THEN [ok |-> FALSE, units |-> {}]
    ELSE [ok |-> TRUE, units |-> {MC[m] : m \in get_similar_mcis(P[u].mci)}]

\* the order of the unit hashes that skiplist.sort() goes by
HashKey(u) == UnitHash(u) * (MaxMci + 2) + u

\* a variant that leaves the unit of mci 0 out
skiplist_of_without_genesis(MC, target_mcis) ==
    LET targets == {target_mcis[i] : i \in 1..Len(target_mcis)} \ {0}
        units == {MC[t] : t \in targets \cap DOMAIN MC}
    IN  IF targets \subseteq DOMAIN MC
        THEN [ok |-> TRUE, skiplist |-> SortBy(units, [x \in units |-> HashKey(x)])]
        ELSE [ok |-> FALSE, skiplist |-> <<>>]

\* calc_skiplist, the loop over target_mcis and skiplist.sort()
skiplist_of(MC, target_mcis) ==
    LET targets == {target_mcis[i] : i \in 1..Len(target_mcis)}
        units == {MC[t] : t \in targets \cap DOMAIN MC}
    IN  IF targets \subseteq DOMAIN MC
        THEN [ok |-> TRUE, skiplist |-> SortBy(units, [x \in units |-> HashKey(x)])]
        ELSE [ok |-> FALSE, skiplist |-> <<>>]

\* object_hash::calc_ball_hash: the ball as the tuple it is the hash of
calc_ball_hash(u, parent_balls, skiplist_balls, is_bad) ==
    [unit |-> u, parent_balls |-> parent_balls, skiplist_balls |-> skiplist_balls,
     bad |-> is_bad]

\* a ball where another ball refers to it
BallRef(b) == <<b.unit, b.bad>>

\* the order of the ball hashes that parent_balls.sort() goes by
BallKey(r) == HashKey(r[1]) * 2 + (IF r[2] THEN 1 ELSE 0)

\* a variant that leaves the balls in the order they were pushed
sort_balls_as_pushed(balls) == balls

\* calc_ball: parent_balls.sort() and skiplist_balls.sort()
sort_balls(balls) == SortBy(Elements(balls), [r \in Elements(balls) |-> BallKey(r)])

\* a variant that fails when the stored ball is another one
check_stored_ball_strict(stored_ball, computed) ==
    stored_ball = NoBall \/ stored_ball = computed

\* calc_ball: a stored ball that differs from the computed one is logged and
\* the call goes on
check_stored_ball(stored_ball, computed) == TRUE

\* calc_ball for the parents in the order of joint_data.parents and the
\* skiplist in its order: the ball, or an error when a parent or skiplist unit
\* has no ball
calc_ball_of(P, B, u, parents, skiplist) ==
    IF \E p \in Elements(parents) \cup Elements(skiplist) : B[p] = NoBall
    THEN [ok |-> FALSE, ball |-> NoBall]
    ELSE LET parent_balls == [i \in 1..Len(parents) |-> BallRef(B[parents[i]])]
             skiplist_balls == [i \in 1..Len(skiplist) |-> BallRef(B[skiplist[i]])]
             b == calc_ball_hash(u, sort_balls(parent_balls), sort_balls(skiplist_balls),
                                 P[u].sequence # "Good")
         IN  [ok |-> check_stored_ball(B[u], b), ball |-> b]

\* calc_ball in the pipeline: the parents list is in arrival order
calc_ball(U, P, B, u, skiplist) ==
    calc_ball_of(P, B, u, SortBy(Parents(U, u), [p \in Parents(U, u) |-> p]),
                 SortBy(skiplist, [x \in skiplist |-> HashKey(x)]))

\* no call of calc_skiplist is followed
NoSkiplistCall ==
    [pc |-> "idle", joint |-> NoUnit, mci |-> 0, devisor |-> 0, similar_mcis |-> <<>>,
     skiplist |-> <<>>, ok |-> TRUE]

\* no call of finalize_joint is followed
NoBallCall ==
    [pc |-> "idle", joint |-> NoUnit, parents |-> <<>>, stored_ball |-> NoBall,
     skiplist |-> <<>>, parent_balls |-> <<>>, skiplist_balls |-> <<>>, ball |-> NoBall]

\* no call of validate_unstable_joint is followed
NoValidateCall == [u \in {} |-> [pc |-> "idle"]]

\* no rebuild has been done
NoRebuildCall == [pc |-> "idle", business_state |-> {}, ok |-> TRUE, live |-> {}]

\* the store before anything is saved, and no read done; `saved` keeps
\* the value last saved under <<table, key>>
NoRead == [table |-> "none", key |-> NoUnit, ok |-> TRUE, value |-> <<>>]
NoKvStore == [joints |-> <<>>, properties |-> <<>>, saved |-> <<>>, read |-> NoRead]

\* no call of validate_headers_commission_recipients is followed
NoRecipientsCall ==
    [pc |-> "idle", authors |-> 0, recipients |-> <<>>, overflow_checks |-> FALSE,
     result |-> "none"]

\* no call of get_stable_history is followed
NoHistoryCall == [pc |-> "idle"]

\* no call of show_history is followed
NoShowCall == [pc |-> "idle"]

\* no unit is being attached to its parents
NoParentCall == [pc |-> "idle"]

\* no call of find_relative_stable_joint is followed
NoWalkCall == [pc |-> "idle"]

TasksIdle ==
    /\ history_call = NoHistoryCall
    /\ show_call = NoShowCall
    /\ parent_call = NoParentCall
    /\ walk_call = NoWalkCall

\* ------------------------------------------------------- initial state
Init ==
    /\ validate_call = NoValidateCall
    /\ rebuild_call = NoRebuildCall
    /\ kv_store = NoKvStore
    /\ TasksIdle
    /\ recipients_call = NoRecipientsCall
    /\ skiplist_call = NoSkiplistCall
    /\ ball_call = NoBallCall
    /\ unit = [u \in {GENESIS} |-> GenesisUnit]
    /\ props = [u \in {GENESIS} |-> GenesisProps]
    /\ ball = [u \in {GENESIS} |-> calc_ball_hash(GENESIS, <<>>, <<>>, FALSE)]
    /\ ready_rx = <<>>
    /\ last_stable_level = GenesisProps.mci
    /\ mc_unit_hash = [m \in {0} |-> GENESIS]
    /\ ball_unit_hash = [b \in {calc_ball_hash(GENESIS, <<>>, <<>>, FALSE)} |-> GENESIS]
    /\ stable_rx = <<>>
    /\ final_rx = <<>>
    /\ business_state = {GenesisOutput}
    /\ temp_business_state = {GenesisOutput}
    /\ last_stable_self_joint = [a \in GenesisUnit.authors |-> GENESIS]
    /\ aborted = FALSE
    /\ panicked = FALSE
    /\ promoted = <<>>
    /\ pushed = <<>>
    /\ business_log = <<>>

\* ------------------------------------------------------- admission
\* the author sets and the message lists a posted unit may carry
AuthorSets == {Coalition, {User}}

RECURSIVE MessageLists(_)
MessageLists(n) ==
    IF n = 0 THEN {<<>>}
    ELSE MessageLists(n - 1) \cup
         {Append(m, GenesisOutput) : m \in {l \in MessageLists(n - 1) : Len(l) = n - 1}}

\* units a new unit may name as last_ball_unit: sealed main-chain units
LastBallUnits == {j \in Units : is_on_main_chain(props, j) /\ props[j].is_stable}

ParentSets == {ps \in SUBSET Units : ps # {} /\ Cardinality(ps) <= MaxParents}

NextUnit == Cardinality(Units)

NewUnit(parents, authors, messages, lbu) ==
    [parent_units |-> parents, authors |-> authors, messages |-> messages,
     last_ball_unit |-> lbu]

\* validate_ready_joint of unit u in the cache U: the properties are
\* computed, the unit is validated against the tentative mirror and handed
\* to the main-chain worker
Validated(U, P, u) ==
    LET P1 == [P EXCEPT ![u] = cacl_static_props(U, P, u)]
        v  == validate_unstable_joint(U, P1, temp_business_state, u)
    IN  [props |-> [P1 EXCEPT ![u].sequence = v.sequence], temp |-> v.temp]

\* the units linked but not yet validated, and the units of the user address
PendingUnits == {u \in Units : ~ IsValid(props[u].level)}
UserUnits == {u \in Units : unit[u].authors = {User}}

\* what a unit of the given authors is posted with: the witness coalition
\* composes on every free unit and carries no payment, the user pays from
\* the genesis output on top of any units
ParentChoices(authors) ==
    IF authors = Coalition THEN {get_all_free_joints(unit)} \cap ParentSets
    ELSE {ps \in ParentSets : Cardinality(ps) <= MaxUserParents}

MessageChoices(authors) ==
    IF authors = Coalition THEN {<<>>} ELSE MessageLists(MaxMsgs) \ {<<>>}

\* the composer names the last sealed main-chain unit
LastBallChoices ==
    {j \in LastBallUnits : \A k \in LastBallUnits : LvLe(props[k].mci, props[j].mci)}

\* SDAG_CACHE.add_new_joint: the unit is linked to its parents; units are
\* posted while the main-chain worker is idle
AddJoint(parents, authors, messages, lbu) ==
    /\ UNCHANGED <<call_vars, ball_unit_hash>>
    /\ ~ aborted
    /\ NextUnit <= MaxUnits
    /\ ready_rx = <<>>
    /\ Cardinality(PendingUnits) < MaxPending
    /\ PendingUnits \subseteq parents
    /\ Cardinality(get_all_free_joints(unit) \ parents) < MaxTips
    /\ \A p \in parents : Cardinality(Children(unit, p)) < MaxChildren
    /\ authors = {User} => Cardinality(UserUnits) < MaxUserUnits
    /\ unit' = Extend(unit, NextUnit, NewUnit(parents, authors, messages, lbu))
    /\ props' = Extend(props, NextUnit, DefaultProps)
    /\ ball' = Extend(ball, NextUnit, NoBall)
    /\ UNCHANGED <<ready_rx, last_stable_level, mc_unit_hash, stable_rx, final_rx,
                   business_state, temp_business_state, last_stable_self_joint,
                   aborted, panicked, promoted, pushed, business_log>>

\* a linked unit whose parents are all ready becomes ready
ValidateReadyJoint(u) ==
    /\ UNCHANGED <<call_vars, ball_unit_hash>>
    /\ ~ aborted
    /\ ~ IsValid(props[u].level)
    /\ ready_rx = <<>>
    /\ \A p \in Parents(unit, u) : IsValid(props[p].level)
    /\ LET v == Validated(unit, props, u)
       IN  /\ props' = v.props
           /\ temp_business_state' = v.temp
    /\ ready_rx' = Append(ready_rx, u)
    /\ UNCHANGED <<unit, ball, last_stable_level, mc_unit_hash, stable_rx, final_rx,
                   business_state, last_stable_self_joint,
                   aborted, panicked, promoted, pushed, business_log>>

\* a unit signed by the witness coalition arrives with all its parents
\* ready and is validated at once
AdmitJoint(parents, lbu) ==
    /\ UNCHANGED <<call_vars, ball_unit_hash>>
    /\ ~ aborted
    /\ NextUnit <= ChainUnits
    /\ ready_rx = <<>>
    /\ Cardinality(get_all_free_joints(unit) \ parents) < MaxTips
    /\ \A p \in parents : Cardinality(Children(unit, p)) < MaxChildren
    /\ LET U == Extend(unit, NextUnit, NewUnit(parents, Coalition, <<>>, lbu))
           v == Validated(U, Extend(props, NextUnit, DefaultProps), NextUnit)
       IN  /\ unit' = U
           /\ props' = v.props
           /\ temp_business_state' = v.temp
    /\ ball' = Extend(ball, NextUnit, NoBall)
    /\ ready_rx' = Append(ready_rx, NextUnit)
    /\ UNCHANGED <<last_stable_level, mc_unit_hash, stable_rx, final_rx,
                   business_state, last_stable_self_joint,
                   aborted, panicked, promoted, pushed, business_log>>

\* a unit of the witness coalition composed on every free unit, with the
\* genesis unit as its last ball unit
AdmitTip ==
    /\ UNCHANGED <<call_vars, ball_unit_hash>>
    /\ ~ aborted
    /\ NextUnit <= LineUnits
    /\ ready_rx = <<>>
    /\ LET U == Extend(unit, NextUnit,
                       NewUnit(get_all_free_joints(unit), Coalition, <<>>, GENESIS))
           v == Validated(U, Extend(props, NextUnit, DefaultProps), NextUnit)
       IN  /\ unit' = U
           /\ props' = v.props
           /\ temp_business_state' = v.temp
    /\ ball' = Extend(ball, NextUnit, NoBall)
    /\ ready_rx' = Append(ready_rx, NextUnit)
    /\ UNCHANGED <<last_stable_level, mc_unit_hash, stable_rx, final_rx,
                   business_state, last_stable_self_joint,
                   aborted, panicked, promoted, pushed, business_log>>

\* a unit of the witness coalition that extends a second branch: the first
\* one names the unit ForkPoint as its only parent, each later one names the
\* unit before it
AdmitFork ==
    /\ UNCHANGED <<call_vars, ball_unit_hash>>
    /\ ~ aborted
    /\ NextUnit > LineUnits
    /\ NextUnit <= ForkUnits
    /\ ready_rx = <<>>
    /\ LET p == IF NextUnit = LineUnits + 1 THEN ForkPoint ELSE NextUnit - 1
           U == Extend(unit, NextUnit, NewUnit({p}, Coalition, <<>>, GENESIS))
           v == Validated(U, Extend(props, NextUnit, DefaultProps), NextUnit)
       IN  /\ unit' = U
           /\ props' = v.props
           /\ temp_business_state' = v.temp
    /\ ball' = Extend(ball, NextUnit, NoBall)
    /\ ready_rx' = Append(ready_rx, NextUnit)
    /\ UNCHANGED <<last_stable_level, mc_unit_hash, stable_rx, final_rx,
                   business_state, last_stable_self_joint,
                   aborted, panicked, promoted, pushed, business_log>>

\* the units a unit includes: its parents and their ancestors
RECURSIVE AncestorsOf(_)
AncestorsOf(u) == Parents(unit, u) \cup UNION {AncestorsOf(p) : p \in Parents(unit, u)}

\* a unit signed by the witness coalition arrives with all its parents ready
\* and is validated at once; no parent includes another, and every parent
\* is within RecentWindow levels of the highest unit
AdmitRecentJoint(parents) ==
    /\ UNCHANGED <<call_vars, ball_unit_hash>>
    /\ ~ aborted
    /\ NextUnit <= RecentUnits
    /\ ready_rx = <<>>
    /\ \A p, q \in parents : p # q => p \notin AncestorsOf(q)
    /\ \A p \in parents :
           props[p].level + RecentWindow >= Max({props[x].level : x \in Units})
    /\ Cardinality(get_all_free_joints(unit) \ parents) < MaxTips
    /\ \A p \in parents : Cardinality(Children(unit, p)) < MaxChildren
    /\ LET U == Extend(unit, NextUnit, NewUnit(parents, Coalition, <<>>, GENESIS))
           v == Validated(U, Extend(props, NextUnit, DefaultProps), NextUnit)
       IN  /\ unit' = U
           /\ props' = v.props
           /\ temp_business_state' = v.temp
    /\ ball' = Extend(ball, NextUnit, NoBall)
    /\ ready_rx' = Append(ready_rx, NextUnit)
    /\ UNCHANGED <<last_stable_level, mc_unit_hash, stable_rx, final_rx,
                   business_state, last_stable_self_joint,
                   aborted, panicked, promoted, pushed, business_log>>

\* groups of witnesses that sign a unit together, three of them no majority,
\* and the user
WitnessGroups == {1..4, 4..6, 6..8, Coalition, {User}}

\* a unit signed by a group arrives with all its parents ready and is
\* validated at once
AdmitGroupJoint(parents, authors) ==
    /\ UNCHANGED <<call_vars, ball_unit_hash>>
    /\ ~ aborted
    /\ NextUnit <= StaticUnits
    /\ Cardinality(get_all_free_joints(unit) \ parents) < MaxTips
    /\ \A p \in parents : Cardinality(Children(unit, p)) < MaxChildren
    /\ LET U == Extend(unit, NextUnit, NewUnit(parents, authors, <<>>, GENESIS))
           v == Validated(U, Extend(props, NextUnit, DefaultProps), NextUnit)
       IN  /\ unit' = U
           /\ props' = v.props
           /\ temp_business_state' = v.temp
    /\ ball' = Extend(ball, NextUnit, NoBall)
    /\ ready_rx' = Append(ready_rx, NextUnit)
    /\ UNCHANGED <<last_stable_level, mc_unit_hash, stable_rx, final_rx,
                   business_state, last_stable_self_joint,
                   aborted, panicked, promoted, pushed, business_log>>

\* the witness whose turn it is, and the witness of the unit before
LineAuthorChoices ==
    {((NextUnit - 1) % WITNESSES_NUM) + 1}
        \cup (IF NextUnit > 1 THEN unit[NextUnit - 1].authors ELSE {})

\* a unit of one witness posted on the unit before it, with genesis as its
\* last ball unit, and validated at once
AdmitWitnessJoint(w) ==
    /\ UNCHANGED <<call_vars, ball_unit_hash>>
    /\ ~ aborted
    /\ NextUnit <= WitnessLineUnits
    /\ ready_rx = <<>>
    /\ LET U == Extend(unit, NextUnit, NewUnit({NextUnit - 1}, {w}, <<>>, GENESIS))
           v == Validated(U, Extend(props, NextUnit, DefaultProps), NextUnit)
       IN  /\ unit' = U
           /\ props' = v.props
           /\ temp_business_state' = v.temp
    /\ ball' = Extend(ball, NextUnit, NoBall)
    /\ ready_rx' = Append(ready_rx, NextUnit)
    /\ UNCHANGED <<last_stable_level, mc_unit_hash, stable_rx, final_rx,
                   business_state, last_stable_self_joint,
                   aborted, panicked, promoted, pushed, business_log>>

\* the unit that is finalized lies on a line of main-chain units, the unit of
\* mci k being unit k, or off the line with the mci of a unit of the line
SkiplistJoints == 0..(MaxMci + 1)

\* the cache when calc_skiplist is called for the unit j of mci m
InitSkiplistOf(j, m) ==
    /\ unit = [u \in {GENESIS, j} |-> IF u = GENESIS THEN GenesisUnit
                                      ELSE NewUnit({}, Coalition, <<>>, GENESIS)]
    /\ props = [u \in {GENESIS, j} |->
                   IF u = GENESIS THEN GenesisProps
                   ELSE [DefaultProps EXCEPT !.level = m, !.wl = m, !.min_wl = m,
                                             !.mci = m, !.sub_mci = 0,
                                             !.limci = IF j = m THEN m ELSE m - 1]]
    /\ ball = [u \in {GENESIS, j} |-> IF u = GENESIS THEN calc_ball_hash(GENESIS, <<>>, <<>>, FALSE)
                                      ELSE NoBall]
    /\ mc_unit_hash = [k \in 0..m |-> k]
    /\ ball_unit_hash = [b \in {calc_ball_hash(GENESIS, <<>>, <<>>, FALSE)} |-> GENESIS]
    /\ skiplist_call = [NoSkiplistCall EXCEPT !.pc = "start", !.joint = j]
    /\ ball_call = NoBallCall

InitSkiplist ==
    /\ validate_call = NoValidateCall
    /\ rebuild_call = NoRebuildCall
    /\ kv_store = NoKvStore
    /\ TasksIdle
    /\ recipients_call = NoRecipientsCall
    /\ \E j \in SkiplistJoints, m \in 0..MaxMci :
           /\ j <= MaxMci => m = j
           /\ j > MaxMci => m > 0
           /\ InitSkiplistOf(j, m)
    /\ ready_rx = <<>>
    /\ last_stable_level = GenesisProps.mci
    /\ stable_rx = <<>>
    /\ final_rx = <<>>
    /\ business_state = {GenesisOutput}
    /\ temp_business_state = {GenesisOutput}
    /\ last_stable_self_joint = [a \in GenesisUnit.authors |-> GENESIS]
    /\ aborted = FALSE
    /\ panicked = FALSE
    /\ promoted = <<>>
    /\ pushed = <<>>
    /\ business_log = <<>>

\* calc_skiplist up to the call of get_similar_mcis
CalcSkiplistEnter ==
    /\ skiplist_call.pc = "start"
    /\ skiplist_call' =
           IF ~ is_on_main_chain(props, skiplist_call.joint)
           THEN [skiplist_call EXCEPT !.pc = "done"]
           ELSE [skiplist_call EXCEPT !.pc = "loop", !.devisor = 10,
                                      !.mci = props[skiplist_call.joint].mci]
    /\ UNCHANGED <<pipeline_vars, ball_call, validate_call, rebuild_call, kv_store,
                   recipients_call, task_vars>>

\* one iteration of the loop of get_similar_mcis
GetSimilarMcisStep ==
    /\ skiplist_call.pc = "loop"
    /\ skiplist_call' =
           IF skiplist_call.mci % skiplist_call.devisor # 0 \/ skiplist_call.mci = 0
           THEN [skiplist_call EXCEPT !.pc = "targets"]
           ELSE [skiplist_call EXCEPT
                    !.similar_mcis = Append(@, skiplist_call.mci - skiplist_call.devisor),
                    !.devisor = @ * 10]
    /\ UNCHANGED <<pipeline_vars, ball_call, validate_call, rebuild_call, kv_store,
                   recipients_call, task_vars>>

\* calc_skiplist after get_similar_mcis has returned
CalcSkiplistReturn ==
    /\ skiplist_call.pc = "targets"
    /\ LET r == skiplist_of(mc_unit_hash, skiplist_call.similar_mcis)
       IN  skiplist_call' = [skiplist_call EXCEPT !.pc = "done", !.ok = r.ok,
                                                  !.skiplist = r.skiplist]
    /\ UNCHANGED <<pipeline_vars, ball_call, validate_call, rebuild_call, kv_store,
                   recipients_call, task_vars>>

\* the ball of a stable child of genesis
ParentBall(q, is_bad) ==
    calc_ball_hash(q, <<BallRef(calc_ball_hash(GENESIS, <<>>, <<>>, FALSE))>>, <<>>, is_bad)

\* the balls a received joint may carry: none, or the ball of the unit with
\* one of the two bad flags
CarriedBalls(j, parents, bad_parents, skiplist) ==
    {NoBall} \cup
    {calc_ball_hash(j, sort_balls([i \in 1..Len(parents) |->
                                      <<parents[i], parents[i] \in bad_parents>>]),
                    sort_balls([i \in 1..Len(skiplist) |-> <<skiplist[i], FALSE>>]), is_bad) :
         is_bad \in BOOLEAN}

\* the cache when finalize_joint is called for the unit j = k + 1: its
\* parents 1..k are stable children of genesis, those of bad_parents with a
\* bad ball, and were appended to joint_data.parents in the order `parents`;
\* j has the mci m, on the main chain or off it, the given sequence and the
\* ball it was received with
InitBallOf(k, parents, bad_parents, m, on_mc, seq, stored_ball) ==
    LET j == k + 1
    IN  /\ unit = [u \in 0..j |->
                      IF u = GENESIS THEN GenesisUnit
                      ELSE IF u = j THEN NewUnit(1..k, Coalition, <<>>, GENESIS)
                      ELSE NewUnit({GENESIS}, Coalition, <<>>, GENESIS)]
        /\ props = [u \in 0..j |->
                       IF u = GENESIS THEN GenesisProps
                       ELSE IF u = j
                       THEN [DefaultProps EXCEPT !.level = 2, !.best_parent_unit = 1,
                                                 !.wl = 1, !.min_wl = 0,
                                                 !.mci = m, !.sub_mci = k,
                                                 !.limci = IF on_mc THEN m ELSE m - 1,
                                                 !.sequence = seq]
                       ELSE [DefaultProps EXCEPT !.level = 1, !.best_parent_unit = GENESIS,
                                                 !.wl = 0, !.min_wl = 0,
                                                 !.mci = m, !.sub_mci = u - 1,
                                                 !.limci = m - 1, !.is_stable = TRUE,
                                                 !.sequence = IF u \in bad_parents
                                                                 THEN "FinalBad" ELSE "Good"]]
        /\ ball = [u \in 0..j |->
                      IF u = GENESIS THEN calc_ball_hash(GENESIS, <<>>, <<>>, FALSE)
                      ELSE IF u = j THEN stored_ball
                      ELSE ParentBall(u, u \in bad_parents)]
        /\ mc_unit_hash = [x \in {0} \cup (IF on_mc THEN {m} ELSE {}) |->
                              IF x = 0 THEN GENESIS ELSE j]
        /\ ball_unit_hash =
               [b \in {calc_ball_hash(GENESIS, <<>>, <<>>, FALSE)}
                          \cup {ParentBall(q, q \in bad_parents) : q \in 1..k} |-> b.unit]
        /\ final_rx = <<j>>
        /\ ball_call = [NoBallCall EXCEPT !.pc = "start", !.joint = j, !.parents = parents,
                                          !.stored_ball = stored_ball]

\* the mci values of the finalized unit: one without skiplist and one whose
\* skiplist holds genesis
BallMcis == {3, 10}

InitBall ==
    /\ validate_call = NoValidateCall
    /\ rebuild_call = NoRebuildCall
    /\ kv_store = NoKvStore
    /\ TasksIdle
    /\ recipients_call = NoRecipientsCall
    /\ \E k \in 1..MaxBallParents :
           \E parents \in Orderings(1..k), bad_parents \in SUBSET (1..k),
              m \in BallMcis, on_mc \in BOOLEAN, seq \in Sequences :
               \E stored_ball \in CarriedBalls(k + 1, parents, bad_parents,
                                    IF on_mc /\ m = 10 THEN <<GENESIS>> ELSE <<>>) :
                   InitBallOf(k, parents, bad_parents, m, on_mc, seq, stored_ball)
    /\ skiplist_call = NoSkiplistCall
    /\ ready_rx = <<>>
    /\ last_stable_level = GenesisProps.mci
    /\ stable_rx = <<>>
    /\ business_state = {GenesisOutput}
    /\ temp_business_state = {GenesisOutput}
    /\ last_stable_self_joint = [a \in GenesisUnit.authors |-> GENESIS]
    /\ aborted = FALSE
    /\ panicked = FALSE
    /\ promoted = <<>>
    /\ pushed = <<>>
    /\ business_log = <<>>

\* what the steps of finalize_joint leave alone
finalize_frame ==
    <<ready_rx, last_stable_level, mc_unit_hash, stable_rx, business_state,
      temp_business_state, last_stable_self_joint, aborted, panicked, promoted, pushed,
      business_log, skiplist_call, validate_call, rebuild_call, kv_store,
      recipients_call, task_vars>>

\* finalize_joint up to the call of calc_ball: the unit is taken from the
\* channel and its skiplist computed
FinalizeEnter ==
    /\ ball_call.pc = "start"
    /\ final_rx # <<>> /\ Head(final_rx) = ball_call.joint
    /\ final_rx' = Tail(final_rx)
    /\ LET sk == calc_skiplist(props, mc_unit_hash, ball_call.joint)
       IN  ball_call' =
               IF ~ sk.ok THEN [ball_call EXCEPT !.pc = "failed"]
               ELSE [ball_call EXCEPT
                        !.pc = "parents",
                        !.skiplist = SortBy(sk.units, [x \in sk.units |-> HashKey(x)])]
    /\ UNCHANGED <<unit, props, ball, ball_unit_hash, finalize_frame>>

\* calc_ball, one iteration of the loop over joint_data.parents
CalcBallParent ==
    /\ ball_call.pc = "parents"
    /\ LET i == Len(ball_call.parent_balls) + 1
       IN  ball_call' =
               IF i > Len(ball_call.parents) THEN [ball_call EXCEPT !.pc = "skiplist"]
               ELSE IF ball[ball_call.parents[i]] = NoBall
                    THEN [ball_call EXCEPT !.pc = "failed"]
               ELSE [ball_call EXCEPT
                        !.parent_balls = Append(@, BallRef(ball[ball_call.parents[i]]))]
    /\ UNCHANGED <<unit, props, ball, ball_unit_hash, final_rx, finalize_frame>>

\* calc_ball, the loop over the skiplist
CalcBallSkiplist ==
    /\ ball_call.pc = "skiplist"
    /\ ball_call' =
           IF \E x \in Elements(ball_call.skiplist) : ball[x] = NoBall
           THEN [ball_call EXCEPT !.pc = "failed"]
           ELSE [ball_call EXCEPT
                    !.pc = "hash",
                    !.skiplist_balls = [i \in 1..Len(ball_call.skiplist) |->
                                           BallRef(ball[ball_call.skiplist[i]])]]
    /\ UNCHANGED <<unit, props, ball, ball_unit_hash, final_rx, finalize_frame>>

\* calc_ball, the two sorts, the hash and the look at the stored ball
CalcBallHash ==
    /\ ball_call.pc = "hash"
    /\ LET b == calc_ball_hash(ball_call.joint, sort_balls(ball_call.parent_balls),
                               sort_balls(ball_call.skiplist_balls),
                               props[ball_call.joint].sequence # "Good")
       IN  ball_call' =
               IF check_stored_ball(ball[ball_call.joint], b)
               THEN [ball_call EXCEPT !.pc = "store", !.ball = b]
               ELSE [ball_call EXCEPT !.pc = "failed"]
    /\ UNCHANGED <<unit, props, ball, ball_unit_hash, final_rx, finalize_frame>>

\* finalize_joint after calc_ball: the ball index, the ball of the joint,
\* the messages of a NoCommission unit, update_joint and set_stable
FinalizeStore ==
    /\ ball_call.pc = "store"
    /\ ball_unit_hash' = Extend(ball_unit_hash, ball_call.ball, ball_call.joint)
    /\ ball' = [ball EXCEPT ![ball_call.joint] = ball_call.ball]
    /\ unit' = IF props[ball_call.joint].sequence = "NoCommission"
                   THEN [unit EXCEPT ![ball_call.joint].messages = <<>>] ELSE unit
    /\ props' = [props EXCEPT ![ball_call.joint].is_stable = TRUE]
    /\ ball_call' = [ball_call EXCEPT !.pc = "done"]
    /\ UNCHANGED <<final_rx, finalize_frame>>

\* ------------------------------------------------------- validation tasks
\* two of the outputs genesis pays to the witnesses, and the witnesses that
\* author the validated units
GenesisOutputs == {<<GENESIS, 1>>, <<GENESIS, 2>>}
Payers == {1, 2}

\* the payments of a validated unit: one or two messages
PaymentLists == {m \in UNION {[1..n -> GenesisOutputs] : n \in 1..MaxMsgs} : TRUE}

\* the cache when the units 1..n, children of genesis with computed static
\* properties, are handed each to a task that calls validate_unstable_joint
InitValidateOf(authors, messages) ==
    LET n == Len(authors)
        U == [u \in 0..n |->
                IF u = GENESIS THEN GenesisUnit
                ELSE NewUnit({GENESIS}, {authors[u]}, messages[u], GENESIS)]
        P0 == [u \in 0..n |-> IF u = GENESIS THEN GenesisProps ELSE DefaultProps]
    IN  /\ unit = U
        /\ props = [u \in 0..n |->
                       IF u = GENESIS THEN GenesisProps ELSE cacl_static_props(U, P0, u)]
        /\ ball = [u \in 0..n |->
                      IF u = GENESIS THEN calc_ball_hash(GENESIS, <<>>, <<>>, FALSE)
                      ELSE NoBall]
        /\ validate_call = [u \in 1..n |->
                               [pc |-> "serial", i |-> 1, seen |-> {}, result |-> "none"]]

InitValidate ==
    /\ \E authors \in [1..ValidateUnits -> Payers],
          messages \in [1..ValidateUnits -> PaymentLists] :
           InitValidateOf(authors, messages)
    /\ skiplist_call = NoSkiplistCall
    /\ ball_call = NoBallCall
    /\ rebuild_call = NoRebuildCall
    /\ kv_store = NoKvStore
    /\ TasksIdle
    /\ recipients_call = NoRecipientsCall
    /\ ready_rx = <<>>
    /\ last_stable_level = GenesisProps.mci
    /\ mc_unit_hash = [m \in {0} |-> GENESIS]
    /\ ball_unit_hash = [b \in {calc_ball_hash(GENESIS, <<>>, <<>>, FALSE)} |-> GENESIS]
    /\ stable_rx = <<>>
    /\ final_rx = <<>>
    /\ business_state = GenesisOutputs
    /\ temp_business_state = GenesisOutputs
    /\ last_stable_self_joint = [a \in GenesisUnit.authors |-> GENESIS]
    /\ aborted = FALSE
    /\ panicked = FALSE
    /\ promoted = <<>>
    /\ pushed = <<>>
    /\ business_log = <<>>

\* what a step of validate_unstable_joint leaves alone besides the
\* tentative mirror
validate_frame ==
    <<unit, props, ball, ready_rx, last_stable_level, mc_unit_hash, stable_rx, final_rx,
      business_state, last_stable_self_joint, aborted, panicked, promoted, pushed,
      business_log, ball_unit_hash, skiplist_call, ball_call, rebuild_call, kv_store,
      recipients_call, task_vars>>

\* validate_unstable_joint of unit u, the global check
ValidateSerial(u) ==
    /\ validate_call[u].pc = "serial"
    /\ validate_call' =
           IF is_unstable_joint_non_serial(unit, props, u)
           THEN [validate_call EXCEPT ![u].pc = "done", ![u].result = "NonserialBad"]
           ELSE [validate_call EXCEPT ![u].pc = "validate"]
    /\ UNCHANGED <<temp_business_state, validate_frame>>

\* validate_unstable_joint of unit u, the head of the loop and the statement
\* `let state = self.temp_business_state.read().unwrap().validate_message(joint, i)`:
\* the read guard is a temporary of the statement and is dropped at its end
ValidateMessage(u) ==
    /\ validate_call[u].pc = "validate"
    /\ LET i == validate_call[u].i
       IN  validate_call' =
               IF i > Len(unit[u].messages)
               THEN [validate_call EXCEPT ![u].pc = "done", ![u].result = "Good"]
               ELSE IF ~ validate_message(temp_business_state, unit, u, i)
               THEN [validate_call EXCEPT ![u].pc = "done", ![u].result = "TempBad"]
               ELSE [validate_call EXCEPT ![u].pc = "apply",
                                          ![u].seen = temp_business_state]
    /\ UNCHANGED <<temp_business_state, validate_frame>>

\* validate_unstable_joint of unit u, the statement
\* `self.temp_business_state.write().unwrap().apply_message(joint, i)?`: the
\* write guard is taken for this one message
ApplyMessage(u) ==
    /\ validate_call[u].pc = "apply"
    /\ LET a == apply_message(temp_business_state, unit, u, validate_call[u].i)
       IN  /\ temp_business_state' = a.state
           /\ validate_call' =
                  IF a.ok
                  THEN [validate_call EXCEPT ![u].pc = "validate", ![u].i = @ + 1,
                                             ![u].seen = a.state]
                  ELSE [validate_call EXCEPT ![u].pc = "done", ![u].result = "Err"]
    /\ UNCHANGED validate_frame

\* the state of a node that starts with an empty cache: calc_last_stable_joint
\* finds no free joint, so the worker starts from MINIMUM
InitBoot ==
    /\ validate_call = NoValidateCall
    /\ rebuild_call = NoRebuildCall
    /\ kv_store = NoKvStore
    /\ TasksIdle
    /\ recipients_call = NoRecipientsCall
    /\ skiplist_call = NoSkiplistCall
    /\ ball_call = NoBallCall
    /\ unit = [u \in {} |-> GenesisUnit]
    /\ props = [u \in {} |-> DefaultProps]
    /\ ball = [u \in {} |-> NoBall]
    /\ ready_rx = <<>>
    /\ last_stable_level = MINIMUM
    /\ mc_unit_hash = [m \in {} |-> GENESIS]
    /\ ball_unit_hash = [b \in {} |-> GENESIS]
    /\ stable_rx = <<>>
    /\ final_rx = <<>>
    /\ business_state = {}
    /\ temp_business_state = {}
    /\ last_stable_self_joint = [a \in {} |-> GENESIS]
    /\ aborted = FALSE
    /\ panicked = FALSE
    /\ promoted = <<>>
    /\ pushed = <<>>
    /\ business_log = <<>>

\* the genesis unit arrives at the empty cache: its static properties are
\* computed against the stand-in best parent, its issue is applied to the
\* tentative mirror and it is handed to the main-chain worker
AdmitGenesis ==
    /\ UNCHANGED <<call_vars, ball_unit_hash>>
    /\ ~ aborted
    /\ Units = {}
    /\ unit' = Extend(unit, GENESIS, GenesisUnit)
    /\ props' = Extend(props, GENESIS, GenesisReadyProps)
    /\ ball' = Extend(ball, GENESIS, NoBall)
    /\ temp_business_state' = temp_business_state \cup {GenesisOutput}
    /\ ready_rx' = Append(ready_rx, GENESIS)
    /\ UNCHANGED <<last_stable_level, mc_unit_hash, stable_rx, final_rx,
                   business_state, last_stable_self_joint,
                   aborted, panicked, promoted, pushed, business_log>>

\* ------------------------------------------------------- main-chain worker
\* one iteration of the loop of start_main_chain_worker
MainChainWorker ==
    /\ UNCHANGED <<call_vars, ball_unit_hash>>
    /\ ~ aborted
    /\ ready_rx # <<>>
    /\ ready_rx' = Tail(ready_rx)
    /\ LET joint == Head(ready_rx)
           min_wl == props[joint].min_wl
           my_last_stable_level ==
               IF unit[joint].last_ball_unit = NoUnit THEN MINIMUM
               ELSE props[unit[joint].last_ball_unit].level
           M == [props |-> props, stable_rx |-> stable_rx, mc_unit_hash |-> mc_unit_hash,
                 promoted |-> promoted, pushed |-> pushed]
           R == update_main_chain(unit, M, joint)
       IN  IF LvGt(min_wl, last_stable_level) /\ unstable_chain_is_endless(props, joint)
           THEN \* unstable_mc_joints grows until the allocation fails
                /\ aborted' = TRUE
                /\ UNCHANGED <<props, stable_rx, mc_unit_hash, promoted, pushed,
                               last_stable_level>>
           ELSE IF LvGt(min_wl, last_stable_level) /\ unstable_chain(props, joint) # <<>>
           THEN /\ props' = R.M.props
                /\ stable_rx' = R.M.stable_rx
                /\ mc_unit_hash' = R.M.mc_unit_hash
                /\ promoted' = R.M.promoted
                /\ pushed' = R.M.pushed
                /\ last_stable_level' = R.last_stable_level
                /\ aborted' = LvLt(R.last_stable_level, my_last_stable_level)
           ELSE UNCHANGED <<props, stable_rx, mc_unit_hash, promoted, pushed,
                            last_stable_level, aborted>>
    /\ UNCHANGED <<unit, ball, final_rx, business_state, temp_business_state,
                   last_stable_self_joint, panicked, business_log>>

\* ------------------------------------------------------- business worker
\* one iteration of the loop of start_business_worker
BusinessWorker ==
    /\ UNCHANGED <<call_vars, ball_unit_hash>>
    /\ ~ aborted
    /\ ~ panicked
    /\ stable_rx # <<>>
    /\ stable_rx' = Tail(stable_rx)
    /\ LET u == Head(stable_rx)
           seq == props[u].sequence
           verdict == validate_stable_joint(unit, props, business_state,
                                            last_stable_self_joint, u)
           applied == apply_stable_messages(business_state, unit, u, 1)
           T2 == IF verdict = "Ok" /\ seq \in {"NonserialBad", "TempBad"}
                     THEN apply_all(temp_business_state, unit, u, 1)
                 ELSE IF verdict = "Err" /\ seq = "Good"
                     THEN revert_all(temp_business_state, unit, u, 1)
                 ELSE temp_business_state
           S2 == IF verdict = "Ok" THEN applied.state ELSE business_state
           L2 == IF verdict = "Ok"
                     THEN update_last_stable_self_joint(unit, last_stable_self_joint, u)
                 ELSE last_stable_self_joint
           seq2 == IF verdict = "Err" \/ (verdict = "Ok" /\ ~ applied.ok)
                       THEN "FinalBad" ELSE seq
       IN  IF verdict = "Unreachable"
           THEN /\ panicked' = TRUE
                /\ UNCHANGED <<props, final_rx, business_state, temp_business_state,
                               last_stable_self_joint, business_log>>
           ELSE /\ props' = [props EXCEPT ![u].sequence = seq2]
                /\ temp_business_state' = T2
                /\ business_state' = S2
                /\ last_stable_self_joint' = L2
                /\ final_rx' = Append(final_rx, u)
                /\ business_log' = Append(business_log,
                       [unit |-> u, sequence |-> seq, verdict |-> verdict,
                        applied |-> applied.ok, final |-> seq2,
                        state_before |-> business_state, state_after |-> S2,
                        self_before |-> last_stable_self_joint, self_after |-> L2,
                        temp_after |-> T2])
                /\ UNCHANGED panicked
    /\ UNCHANGED <<unit, ball, ready_rx, last_stable_level, mc_unit_hash,
                   aborted, promoted, pushed>>

\* ------------------------------------------------------- finalization worker
\* one iteration of the loop of start_finalization_worker: finalize_joint,
\* whose error is logged and the unit skipped
FinalizationWorker ==
    /\ UNCHANGED call_vars
    /\ ~ aborted
    /\ final_rx # <<>>
    /\ final_rx' = Tail(final_rx)
    /\ LET u == Head(final_rx)
           skiplist == calc_skiplist(props, mc_unit_hash, u)
           b == calc_ball(unit, props, ball, u, skiplist.units)
       IN  IF ~ skiplist.ok \/ ~ b.ok
           THEN UNCHANGED <<unit, props, ball, ball_unit_hash>>
           ELSE /\ ball_unit_hash' = Extend(ball_unit_hash, b.ball, u)
                /\ ball' = [ball EXCEPT ![u] = b.ball]
                /\ unit' = IF props[u].sequence = "NoCommission"
                               THEN [unit EXCEPT ![u].messages = <<>>] ELSE unit
                /\ props' = [props EXCEPT ![u].is_stable = TRUE]
    /\ UNCHANGED <<ready_rx, last_stable_level, mc_unit_hash, stable_rx,
                   business_state, temp_business_state, last_stable_self_joint,
                   aborted, panicked, promoted, pushed, business_log>>

\* ------------------------------------------------------- KV store calls
Keys == 1..MaxKey

\* joints and properties that are saved
StoredJoints ==
    [ball : {NoBall, calc_ball_hash(1, <<>>, <<>>, FALSE)},
     skiplist_units : {<<>>, <<GENESIS>>},
     unit : {1},
     unsigned : {"None", "true"}]

StoredProperties == {DefaultProps, GenesisProps, GenesisReadyProps}

kv_frame == <<pipeline_vars, skiplist_call, ball_call, validate_call, rebuild_call,
              recipients_call, task_vars>>

\* KvStore::save_joint
SaveJoint(key, joint) ==
    /\ kv_store' = [kv_store EXCEPT
                       !.joints = tree_set(@, key, joint_to_string(joint)),
                       !.saved = Extend(@, <<"joints", key>>, joint),
                       !.read = NoRead]
    /\ UNCHANGED kv_frame

\* KvStore::save_joint_property
SaveJointProperty(key, property) ==
    /\ kv_store' = [kv_store EXCEPT
                       !.properties = tree_set(@, key, property_to_string(property)),
                       !.saved = Extend(@, <<"properties", key>>, property),
                       !.read = NoRead]
    /\ UNCHANGED kv_frame

\* KvStore::read_joint
ReadJoint(key) ==
    /\ LET value == tree_get(kv_store.joints, key)
       IN  kv_store' = [kv_store EXCEPT
                          !.read = IF value.some
                                   THEN [table |-> "joints", key |-> key, ok |-> TRUE,
                                         value |-> joint_from_str(value.value)]
                                   ELSE [table |-> "joints", key |-> key, ok |-> FALSE,
                                         value |-> <<>>]]
    /\ UNCHANGED kv_frame

\* KvStore::read_joint_property
ReadJointProperty(key) ==
    /\ LET value == tree_get(kv_store.properties, key)
       IN  kv_store' = [kv_store EXCEPT
                          !.read = IF value.some
                                   THEN [table |-> "properties", key |-> key, ok |-> TRUE,
                                         value |-> property_from_str(value.value)]
                                   ELSE [table |-> "properties", key |-> key, ok |-> FALSE,
                                         value |-> <<>>]]
    /\ UNCHANGED kv_frame

\* ------------------------------------------------------- basic validation
\* the addresses and shares of the recipients of a received unit
Addresses == 0..3
Shares == {U32(0), U32(40), U32(60), U32(100), wide_add(U32_HALF, U32(50))}

RecipientLists ==
    UNION {[1..n -> [address : Addresses, share : Shares]] : n \in 0..MaxRecipients}

\* a unit of one or two authors arrives with a list of recipients; the
\* node is built with or without overflow checks
InitRecipients ==
    /\ \E authors \in 1..2, recipients \in RecipientLists, overflow_checks \in BOOLEAN :
           recipients_call = [pc |-> "call", authors |-> authors, recipients |-> recipients,
                              overflow_checks |-> overflow_checks, result |-> "none"]
    /\ validate_call = NoValidateCall
    /\ rebuild_call = NoRebuildCall
    /\ kv_store = NoKvStore
    /\ TasksIdle
    /\ skiplist_call = NoSkiplistCall
    /\ ball_call = NoBallCall
    /\ unit = [u \in {GENESIS} |-> GenesisUnit]
    /\ props = [u \in {GENESIS} |-> GenesisProps]
    /\ ball = [u \in {GENESIS} |-> calc_ball_hash(GENESIS, <<>>, <<>>, FALSE)]
    /\ ready_rx = <<>>
    /\ last_stable_level = GenesisProps.mci
    /\ mc_unit_hash = [m \in {0} |-> GENESIS]
    /\ ball_unit_hash = [b \in {calc_ball_hash(GENESIS, <<>>, <<>>, FALSE)} |-> GENESIS]
    /\ stable_rx = <<>>
    /\ final_rx = <<>>
    /\ business_state = {GenesisOutput}
    /\ temp_business_state = {GenesisOutput}
    /\ last_stable_self_joint = [a \in GenesisUnit.authors |-> GENESIS]
    /\ aborted = FALSE
    /\ panicked = FALSE
    /\ promoted = <<>>
    /\ pushed = <<>>
    /\ business_log = <<>>

\* validate_business_basic calls validate_headers_commission_recipients
ValidateRecipients ==
    /\ recipients_call.pc = "call"
    /\ recipients_call' =
           [recipients_call EXCEPT
               !.pc = "done",
               !.result = validate_headers_commission_recipients(
                              recipients_call.authors, recipients_call.recipients,
                              recipients_call.overflow_checks)]
    /\ UNCHANGED <<pipeline_vars, skiplist_call, ball_call, validate_call, rebuild_call,
                   kv_store, task_vars>>

\* ------------------------------------------------------- restart
\* every unit with an mci has passed the business worker and is stored
Quiescent == ready_rx = <<>> /\ stable_rx = <<>> /\ final_rx = <<>>

rebuild_frame == <<pipeline_vars, skiplist_call, ball_call, validate_call, kv_store,
                   recipients_call, task_vars>>

\* the stable mirror is rebuilt by rebuild_from_genesis; `live` keeps the
\* mirror of the business worker
RebuildFromGenesis ==
    /\ rebuild_call.pc = "idle"
    /\ ~ aborted /\ ~ panicked
    /\ Quiescent
    /\ LET r == rebuild_from_genesis(unit, props)
       IN  rebuild_call' = [pc |-> "from_genesis", business_state |-> r.state,
                            ok |-> r.ok, live |-> business_state]
    /\ UNCHANGED rebuild_frame

\* BUSINESS_CACHE is initialized at start-up by rebuild_from_db
RebuildFromDb ==
    /\ rebuild_call.pc = "idle"
    /\ ~ aborted /\ ~ panicked
    /\ Quiescent
    /\ rebuild_call' = [pc |-> "from_db", business_state |-> rebuild_from_db.state,
                        ok |-> rebuild_from_db.ok, live |-> business_state]
    /\ UNCHANGED rebuild_frame

\* ------------------------------------------------------- light history
\* get_stable_history reads a view: related_joints (get_related_joints of the
\* address), last (get_last_stable_self_joint of the address), and of each
\* unit the authors, the outputs of its payment messages in message order,
\* its related units (get_related_units) and its previous stable self unit
\* (get_stable_prev_self_unit)

\* the transaction get_receive_tx pushes for an output of unit u
ReceiveTx(view, u, address, output) ==
    [unit_hash |-> u, from_addr |-> view.units[u].authors[1], to_addr |-> address,
     amount |-> output.amount]

\* the transaction get_stable_history pushes for an output of the self unit u
SendTx(u, address, output) ==
    [unit_hash |-> u, from_addr |-> address, to_addr |-> output.address,
     amount |-> output.amount]

\* get_receive_tx, over the outputs still to visit
RECURSIVE receive_outputs(_, _, _, _, _, _)
receive_outputs(view, u, outputs, address, need_tx_count, txs) ==
    IF outputs = <<>> THEN [found |-> FALSE, txs |-> txs]
    ELSE IF Head(outputs).address = address
         THEN LET pushed_txs == Append(txs, ReceiveTx(view, u, address, Head(outputs)))
              IN  IF Len(pushed_txs) >= need_tx_count
                  THEN [found |-> TRUE, txs |-> pushed_txs]
                  ELSE receive_outputs(view, u, Tail(outputs), address, need_tx_count,
                                       pushed_txs)
         ELSE receive_outputs(view, u, Tail(outputs), address, need_tx_count, txs)

get_receive_tx(view, u, address, need_tx_count, txs) ==
    receive_outputs(view, u, view.units[u].outputs, address, need_tx_count, txs)

\* the loops `for unit in ... { if get_receive_tx(..) { return } }`
RECURSIVE receive_units(_, _, _, _, _)
receive_units(view, related, address, num, txs) ==
    IF related = <<>> THEN [found |-> FALSE, txs |-> txs]
    ELSE LET r == get_receive_tx(view, Head(related), address, num, txs)
         IN  IF r.found THEN r
             ELSE receive_units(view, Tail(related), address, num, r.txs)

\* the loop over the outputs of a self unit: "send money to others"
RECURSIVE send_outputs(_, _, _, _, _)
send_outputs(u, outputs, address, num, txs) ==
    IF outputs = <<>> THEN [found |-> FALSE, txs |-> txs]
    ELSE IF Head(outputs).address = address
         THEN send_outputs(u, Tail(outputs), address, num, txs)
         ELSE LET pushed_txs == Append(txs, SendTx(u, address, Head(outputs)))
              IN  IF Len(pushed_txs) >= num
                  THEN [found |-> TRUE, txs |-> pushed_txs]
                  ELSE send_outputs(u, Tail(outputs), address, num, pushed_txs)

\* the loop `while let Some(last_self_unit) = self_unit`
RECURSIVE self_units(_, _, _, _, _)
self_units(view, self_unit, address, num, txs) ==
    IF self_unit = NoUnit THEN [result |-> "Ok", txs |-> txs]
    ELSE IF view.units[self_unit].authors[1] # address
         THEN [result |-> "Panic", txs |-> txs]
    ELSE LET sent == send_outputs(self_unit, view.units[self_unit].outputs, address, num,
                                  txs)
         IN  IF sent.found THEN [result |-> "Ok", txs |-> sent.txs]
             ELSE LET received == receive_units(view, view.units[self_unit].related_units,
                                                address, num, sent.txs)
                  IN  IF received.found THEN [result |-> "Ok", txs |-> received.txs]
                      ELSE self_units(view, view.units[self_unit].prev_self, address, num,
                                      received.txs)

\* get_stable_history
get_stable_history(view, address, num) ==
    LET received == receive_units(view, view.related_joints, address, num, <<>>)
    IN  IF received.found THEN [result |-> "Ok", txs |-> received.txs]
        ELSE self_units(view, view.last, address, num, received.txs)

\* the views the history is asked over: two stable units; unit 2 may follow
\* unit 1 as the self unit of the address, and may have unit 1 among its
\* related units
HistoryAddress == 1
OtherAddress == 2
MaxOutputs == 2
MaxNum == 3
OutputLists ==
    UNION {[1..n -> {[address |-> HistoryAddress, amount |-> 5],
                     [address |-> OtherAddress, amount |-> 7]}] : n \in 1..MaxOutputs}
HistoryViews ==
    {[related_joints |-> rj, last |-> last,
      units |-> <<[authors |-> a1, outputs |-> o1, related_units |-> <<>>,
                   prev_self |-> NoUnit],
                  [authors |-> <<HistoryAddress>>, outputs |-> o2, related_units |-> ru,
                   prev_self |-> prev]>>] :
        rj \in {<<>>, <<1>>}, last \in {NoUnit, 2}, a1 \in {<<HistoryAddress>>, <<OtherAddress>>},
        o1 \in OutputLists, o2 \in OutputLists, ru \in {<<>>, <<1>>}, prev \in {NoUnit, 1}}

\* a light client asks for the history of HistoryAddress
InitHistory ==
    /\ \E view \in HistoryViews, num \in 0..MaxNum :
           /\ (view.last = 2 /\ view.units[2].prev_self = 1) =>
                  view.units[1].authors = <<HistoryAddress>>
           /\ history_call = [pc |-> "call", view |-> view, address |-> HistoryAddress,
                              num |-> num, result |-> "none", txs |-> <<>>]
    /\ show_call = NoShowCall
    /\ parent_call = NoParentCall
    /\ walk_call = NoWalkCall
    /\ recipients_call = NoRecipientsCall
    /\ validate_call = NoValidateCall
    /\ rebuild_call = NoRebuildCall
    /\ kv_store = NoKvStore
    /\ skiplist_call = NoSkiplistCall
    /\ ball_call = NoBallCall
    /\ unit = [u \in {GENESIS} |-> GenesisUnit]
    /\ props = [u \in {GENESIS} |-> GenesisProps]
    /\ ball = [u \in {GENESIS} |-> calc_ball_hash(GENESIS, <<>>, <<>>, FALSE)]
    /\ ready_rx = <<>>
    /\ last_stable_level = GenesisProps.mci
    /\ mc_unit_hash = [m \in {0} |-> GENESIS]
    /\ ball_unit_hash = [b \in {calc_ball_hash(GENESIS, <<>>, <<>>, FALSE)} |-> GENESIS]
    /\ stable_rx = <<>>
    /\ final_rx = <<>>
    /\ business_state = {GenesisOutput}
    /\ temp_business_state = {GenesisOutput}
    /\ last_stable_self_joint = [a \in GenesisUnit.authors |-> GENESIS]
    /\ aborted = FALSE
    /\ panicked = FALSE
    /\ promoted = <<>>
    /\ pushed = <<>>
    /\ business_log = <<>>

\* prepare_latest_history calls get_stable_history
PrepareLatestHistory ==
    /\ history_call.pc = "call"
    /\ LET r == get_stable_history(history_call.view, history_call.address,
                                   history_call.num)
       IN  history_call' = [history_call EXCEPT !.pc = "done", !.result = r.result,
                                                !.txs = r.txs]
    /\ UNCHANGED <<pipeline_vars, skiplist_call, ball_call, validate_call, rebuild_call,
                   kv_store, recipients_call, show_call, parent_call, walk_call>>

\* ------------------------------------------------------- wallet display
\* a u64 is the function of its bits, bit 0 the lowest
U64_BITS == 64
F64_MANTISSA_BITS == 53
U64Zero == [i \in 0..(U64_BITS - 1) |-> 0]

\* the u64 with exactly the bits of the set s
U64OfBits(s) == [i \in 0..(U64_BITS - 1) |-> IF i \in s THEN 1 ELSE 0]

\* 0 - a in wrapping arithmetic: the bits up to the lowest set bit stay, the
\* bits above it are inverted
wrapping_neg(a) ==
    [i \in 0..(U64_BITS - 1) |->
        IF \E j \in 0..(i - 1) : a[j] = 1 THEN 1 - a[i] ELSE a[i]]

\* `0 - amount` on u64: with overflow checks every amount but 0 panics,
\* without them the difference wraps
sub_from_zero(a, overflow_checks) ==
    IF a = U64Zero THEN [panic |-> FALSE, value |-> U64Zero]
    ELSE IF overflow_checks THEN [panic |-> TRUE, value |-> U64Zero]
    ELSE [panic |-> FALSE, value |-> wrapping_neg(a)]


BitLen(x) == IF x = U64Zero THEN 0 ELSE Max({i + 1 : i \in {j \in DOMAIN x : x[j] = 1}})

\* `amount as f64`: never negative; the magnitude is the u64 rounded to 53
\* significant bits, ties to even; it has one more bit than the u64, as
\* the rounding can carry into 2^64
as_f64(x) ==
    LET d == BitLen(x) - F64_MANTISSA_BITS
        bit(i) == IF i < U64_BITS THEN x[i] ELSE 0
        round_up == /\ d > 0
                    /\ x[d - 1] = 1
                    /\ (x[d] = 1 \/ \E j \in 0..(d - 2) : x[j] = 1)
    IN  [negative |-> FALSE,
         magnitude |->
             [i \in 0..U64_BITS |->
                 IF i < d THEN 0
                 ELSE IF round_up /\ \A j \in d..(i - 1) : bit(j) = 1
                      THEN 1 - bit(i)
                      ELSE bit(i)]]

\* the amount shown for a transaction of the history: both branches of
\* show_history compute it alike
shown_amount(tx, address, overflow_checks) ==
    IF tx.to_addr = address
    THEN [panic |-> FALSE, amount |-> as_f64(tx.amount)]
    ELSE LET r == sub_from_zero(tx.amount, overflow_checks)
         IN  [panic |-> r.panic, amount |-> as_f64(r.value)]

\* show_history over the transactions the hub answered: with an index the
\* entry of the index, without one the first num entries
RECURSIVE show_list(_, _, _, _, _)
show_list(transactions, id, num, address, overflow_checks) ==
    IF id > Len(transactions) \/ id - 1 > num - 1 THEN [result |-> "Ok", shown |-> <<>>]
    ELSE LET s == shown_amount(transactions[id], address, overflow_checks)
         IN  IF s.panic THEN [result |-> "Panic", shown |-> <<>>]
             ELSE LET rest == show_list(transactions, id + 1, num, address,
                                        overflow_checks)
                  IN  [result |-> rest.result,
                       shown |-> IF rest.result = "Ok" THEN <<s.amount>> \o rest.shown
                                 ELSE <<>>]

\* the index None
NoIndex == -1

show_history(transactions, address, index, num, overflow_checks) ==
    IF index # NoIndex
    THEN IF index = 0 \/ index > Len(transactions) THEN [result |-> "Err", shown |-> <<>>]
         ELSE LET s == shown_amount(transactions[index], address, overflow_checks)
              IN  IF s.panic THEN [result |-> "Panic", shown |-> <<>>]
                  ELSE [result |-> "Ok", shown |-> <<s.amount>>]
    ELSE show_list(transactions, 1, num, address, overflow_checks)

\* the amounts of the history entries: no bit, or one or two of the bits
\* 0, 1, 20, 52, 53, 54 and 63, or all 64 bits
AmountBits == {0, 1, 20, 52, 53, 54, 63}
Amounts ==
    {U64OfBits({i, j}) : i \in AmountBits, j \in AmountBits}
        \cup {U64Zero, U64OfBits(0..(U64_BITS - 1))}

WalletAddress == 1
PayeeAddress == 2
DefaultNum == 5

\* the wallet shows a history of one entry, an inbound or an outbound one;
\* the wallet is built with or without overflow checks
InitShow ==
    /\ \E amount \in Amounts, to_addr \in {WalletAddress, PayeeAddress},
          index \in {NoIndex, 0, 1}, overflow_checks \in BOOLEAN :
           show_call =
               [pc |-> "call", address |-> WalletAddress,
                transactions |->
                    <<[unit_hash |-> 1,
                       from_addr |-> IF to_addr = WalletAddress THEN PayeeAddress
                                     ELSE WalletAddress,
                       to_addr |-> to_addr, amount |-> amount]>>,
                index |-> index, num |-> DefaultNum, overflow_checks |-> overflow_checks,
                result |-> "none", shown |-> <<>>]
    /\ history_call = NoHistoryCall
    /\ parent_call = NoParentCall
    /\ walk_call = NoWalkCall
    /\ recipients_call = NoRecipientsCall
    /\ validate_call = NoValidateCall
    /\ rebuild_call = NoRebuildCall
    /\ kv_store = NoKvStore
    /\ skiplist_call = NoSkiplistCall
    /\ ball_call = NoBallCall
    /\ unit = [u \in {GENESIS} |-> GenesisUnit]
    /\ props = [u \in {GENESIS} |-> GenesisProps]
    /\ ball = [u \in {GENESIS} |-> calc_ball_hash(GENESIS, <<>>, <<>>, FALSE)]
    /\ ready_rx = <<>>
    /\ last_stable_level = GenesisProps.mci
    /\ mc_unit_hash = [m \in {0} |-> GENESIS]
    /\ ball_unit_hash = [b \in {calc_ball_hash(GENESIS, <<>>, <<>>, FALSE)} |-> GENESIS]
    /\ stable_rx = <<>>
    /\ final_rx = <<>>
    /\ business_state = {GenesisOutput}
    /\ temp_business_state = {GenesisOutput}
    /\ last_stable_self_joint = [a \in GenesisUnit.authors |-> GENESIS]
    /\ aborted = FALSE
    /\ panicked = FALSE
    /\ promoted = <<>>
    /\ pushed = <<>>
    /\ business_log = <<>>

\* the wallet command `log`
ShowHistory ==
    /\ show_call.pc = "call"
    /\ LET r == show_history(show_call.transactions, show_call.address, show_call.index,
                             show_call.num, show_call.overflow_checks)
       IN  show_call' = [show_call EXCEPT !.pc = "done", !.result = r.result,
                                          !.shown = r.shown]
    /\ UNCHANGED <<pipeline_vars, skiplist_call, ball_call, validate_call, rebuild_call,
                   kv_store, recipients_call, history_call, parent_call, walk_call>>

\* ------------------------------------------------------- relative stability
\* LAST_STABLE_JOINT: calc_last_stable_joint finds it when the node starts;
\* the node of the model starts with the stable genesis unit in its cache
LAST_STABLE_JOINT == GENESIS

\* is_stable_to_joint, first walk: from the best parent of the earlier joint
\* down to the level of the stable point
RECURSIVE reaches_stable_point(_, _, _)
reaches_stable_point(P, best_parent, stable_point) ==
    IF best_parent = NoUnit \/ ~ LvGe(P[best_parent].level, P[stable_point].level)
        THEN FALSE
    ELSE IF stable_point = best_parent THEN TRUE
    ELSE reaches_stable_point(P, P[best_parent].best_parent_unit, stable_point)

\* is_stable_to_joint, second walk: from the joint down to the level of the
\* earlier joint, collecting the end points
RECURSIVE end_points_walk(_, _, _, _)
end_points_walk(P, best_parent, earlier_joint, end_joints) ==
    IF best_parent = NoUnit \/ ~ LvGe(P[best_parent].level, P[earlier_joint].level)
        THEN [is_ancestor |-> FALSE, end_joints |-> end_joints]
    ELSE LET ends == IF /\ P[best_parent].is_min_wl_increased
                        /\ LvGe(P[best_parent].min_wl, P[earlier_joint].level)
                     THEN Append(end_joints, best_parent) ELSE end_joints
         IN  IF earlier_joint = best_parent
                 THEN [is_ancestor |-> TRUE, end_joints |-> ends]
             ELSE end_points_walk(P, P[best_parent].best_parent_unit, earlier_joint, ends)

\* is_stable_to_joint, last loop: end_joints is popped from its end
RECURSIVE stable_to_some_end(_, _, _, _)
stable_to_some_end(U, P, earlier_joint, end_joints) ==
    IF end_joints = <<>> THEN FALSE
    ELSE IF LvGt(P[Last(end_joints)].min_wl,
                 calc_max_alt_level(U, P, earlier_joint, Last(end_joints)))
        THEN TRUE
    ELSE stable_to_some_end(U, P, earlier_joint, Front(end_joints))

is_stable_to_joint(U, P, earlier_joint, joint) ==
    LET stable_point == LAST_STABLE_JOINT
    IN  IF LvLe(P[earlier_joint].level, P[stable_point].level)
            THEN is_on_main_chain(P, earlier_joint)
        ELSE IF ~ reaches_stable_point(P, P[earlier_joint].best_parent_unit, stable_point)
            THEN FALSE
        ELSE LET w == end_points_walk(P, joint, earlier_joint, <<>>)
             IN  w.is_ancestor /\ stable_to_some_end(U, P, earlier_joint, w.end_joints)

\* a unit signed by the witness coalition arrives with all its parents ready
\* and names lbu as its last ball unit; it is admitted when lbu is stable
\* relative to it
AdmitWithLastBall(parents, lbu) ==
    /\ UNCHANGED <<call_vars, ball_unit_hash>>
    /\ ~ aborted
    /\ NextUnit <= LastBallRunUnits
    /\ ready_rx = <<>>
    /\ Cardinality(get_all_free_joints(unit) \ parents) < MaxTips
    /\ \A p \in parents : Cardinality(Children(unit, p)) < MaxChildren
    /\ LET U == Extend(unit, NextUnit, NewUnit(parents, Coalition, <<>>, lbu))
           v == Validated(U, Extend(props, NextUnit, DefaultProps), NextUnit)
       IN  /\ is_stable_to_joint(U, v.props, lbu, NextUnit)
           /\ unit' = U
           /\ props' = v.props
           /\ temp_business_state' = v.temp
    /\ ball' = Extend(ball, NextUnit, NoBall)
    /\ ready_rx' = Append(ready_rx, NextUnit)
    /\ UNCHANGED <<last_stable_level, mc_unit_hash, stable_rx, final_rx,
                   business_state, last_stable_self_joint,
                   aborted, panicked, promoted, pushed, business_log>>

\* ------------------------------------------------------- parent linking
\* one unit in the cache while its parents arrive: each arrival calls
\* add_parent, whose two statements are steps of their own; `counted` are
\* the parents whose fetch_add is done, `parents` is the AppendList;
\* `seen` is what a task that looked at the unit last found
is_missing_parent(c) == Cardinality(c.parent_units) > c.valid_parent_num

\* calc_level of the unit over the parents its list holds; a parent of the
\* model has the level of its number
calc_level_of(parents) == Max({MINIMUM} \cup Elements(parents)) + 1

\* a unit that names one to MaxLinkParents parents is put into the cache
\* before any of them
InitParents ==
    /\ \E k \in 1..MaxLinkParents :
           parent_call = [pc |-> "linking", parent_units |-> 1..k, counted |-> {},
                          valid_parent_num |-> 0, parents |-> <<>>,
                          seen |-> [missing |-> TRUE, parents |-> {}, level |-> INVALID]]
    /\ history_call = NoHistoryCall
    /\ show_call = NoShowCall
    /\ walk_call = NoWalkCall
    /\ recipients_call = NoRecipientsCall
    /\ validate_call = NoValidateCall
    /\ rebuild_call = NoRebuildCall
    /\ kv_store = NoKvStore
    /\ skiplist_call = NoSkiplistCall
    /\ ball_call = NoBallCall
    /\ unit = [u \in {GENESIS} |-> GenesisUnit]
    /\ props = [u \in {GENESIS} |-> GenesisProps]
    /\ ball = [u \in {GENESIS} |-> calc_ball_hash(GENESIS, <<>>, <<>>, FALSE)]
    /\ ready_rx = <<>>
    /\ last_stable_level = GenesisProps.mci
    /\ mc_unit_hash = [m \in {0} |-> GENESIS]
    /\ ball_unit_hash = [b \in {calc_ball_hash(GENESIS, <<>>, <<>>, FALSE)} |-> GENESIS]
    /\ stable_rx = <<>>
    /\ final_rx = <<>>
    /\ business_state = {GenesisOutput}
    /\ temp_business_state = {GenesisOutput}
    /\ last_stable_self_joint = [a \in GenesisUnit.authors |-> GENESIS]
    /\ aborted = FALSE
    /\ panicked = FALSE
    /\ promoted = <<>>
    /\ pushed = <<>>
    /\ business_log = <<>>

parent_frame ==
    <<pipeline_vars, skiplist_call, ball_call, validate_call, rebuild_call, kv_store,
      recipients_call, history_call, show_call, walk_call>>

\* add_parent, first statement: valid_parent_num.fetch_add(1)
AddParentCount(p) ==
    /\ parent_call.pc = "linking"
    /\ p \in parent_call.parent_units \ parent_call.counted
    /\ parent_call' = [parent_call EXCEPT !.counted = @ \cup {p},
                                          !.valid_parent_num = @ + 1]
    /\ UNCHANGED parent_frame

\* add_parent, second statement: parents.append(parent)
AddParentAppend(p) ==
    /\ parent_call.pc = "linking"
    /\ p \in parent_call.counted \ Elements(parent_call.parents)
    /\ parent_call' = [parent_call EXCEPT !.parents = Append(@, p)]
    /\ UNCHANGED parent_frame

\* another task asks is_missing_parent and, told that no parent is missing,
\* goes through the parents list for the level of the unit
CheckMissingParent ==
    /\ parent_call.pc = "linking"
    /\ parent_call' =
           [parent_call EXCEPT
               !.seen = IF is_missing_parent(parent_call)
                        THEN [missing |-> TRUE, parents |-> {}, level |-> INVALID]
                        ELSE [missing |-> FALSE,
                              parents |-> Elements(parent_call.parents),
                              level |-> calc_level_of(parent_call.parents)]]
    /\ UNCHANGED parent_frame

\* ------------------------------------------------------- relative stable walk
\* find_relative_stable_joint followed step by step over a line of units:
\* unit 0 is genesis and the best parent of unit i is unit i - 1.  A joint of
\* the walk is <<unit, fake>>; the stand-in that get_best_parent makes for
\* genesis is a copy of genesis with the authors, and the empty best_parent
\* list, of genesis.
get_best_parent_of(joint) ==
    IF joint.unit = GENESIS THEN [unit |-> GENESIS, fake |-> TRUE]
    ELSE [unit |-> joint.unit - 1, fake |-> FALSE]

\* a variant that asks for more than the majority
majority_exceeded(valid_witnesses) ==
    Cardinality(valid_witnesses) > MAJORITY_OF_WITNESSES

\* valid_witnesses.len() >= MAJORITY_OF_WITNESSES
majority_reached(valid_witnesses) ==
    Cardinality(valid_witnesses) >= MAJORITY_OF_WITNESSES

\* the authors of genesis, and of the units above it, in the runs of the walk
GenesisAuthorSets == {MY_WITNESSES, Coalition, 1..(MAJORITY_OF_WITNESSES - 1), {User}}
WalkAuthorSets == {1..4, 5..8, Coalition, {User}}

\* find_relative_stable_joint is called for one unit of a line of WalkUnits
\* units above genesis
InitWalk ==
    /\ \E g \in GenesisAuthorSets, a \in [1..WalkUnits -> WalkAuthorSets],
          self \in 0..WalkUnits :
           walk_call = [pc |-> "call",
                        authors |-> [u \in 0..WalkUnits |-> IF u = GENESIS THEN g ELSE a[u]],
                        self |-> self,
                        best_parent |-> [unit |-> self, fake |-> FALSE],
                        valid_witnesses |-> {}]
    /\ history_call = NoHistoryCall
    /\ show_call = NoShowCall
    /\ parent_call = NoParentCall
    /\ recipients_call = NoRecipientsCall
    /\ validate_call = NoValidateCall
    /\ rebuild_call = NoRebuildCall
    /\ kv_store = NoKvStore
    /\ skiplist_call = NoSkiplistCall
    /\ ball_call = NoBallCall
    /\ unit = [u \in {GENESIS} |-> GenesisUnit]
    /\ props = [u \in {GENESIS} |-> GenesisProps]
    /\ ball = [u \in {GENESIS} |-> calc_ball_hash(GENESIS, <<>>, <<>>, FALSE)]
    /\ ready_rx = <<>>
    /\ last_stable_level = GenesisProps.mci
    /\ mc_unit_hash = [m \in {0} |-> GENESIS]
    /\ ball_unit_hash = [b \in {calc_ball_hash(GENESIS, <<>>, <<>>, FALSE)} |-> GENESIS]
    /\ stable_rx = <<>>
    /\ final_rx = <<>>
    /\ business_state = {GenesisOutput}
    /\ temp_business_state = {GenesisOutput}
    /\ last_stable_self_joint = [a \in GenesisUnit.authors |-> GENESIS]
    /\ aborted = FALSE
    /\ panicked = FALSE
    /\ promoted = <<>>
    /\ pushed = <<>>
    /\ business_log = <<>>

walk_frame ==
    <<pipeline_vars, skiplist_call, ball_call, validate_call, rebuild_call, kv_store,
      recipients_call, history_call, show_call, parent_call>>

\* find_relative_stable_joint: let mut best_parent = self.get_best_parent()
WalkEnter ==
    /\ walk_call.pc = "call"
    /\ walk_call' = [walk_call EXCEPT !.pc = "loop",
                                      !.best_parent = get_best_parent_of(@)]
    /\ UNCHANGED walk_frame

\* find_relative_stable_joint: one iteration of the loop
WalkLoop ==
    /\ walk_call.pc = "loop"
    /\ LET joint == walk_call.best_parent
           seen == walk_call.valid_witnesses
                       \cup (walk_call.authors[joint.unit] \cap MY_WITNESSES)
       IN  walk_call' =
               IF majority_reached(seen)
               THEN [walk_call EXCEPT !.pc = "done", !.valid_witnesses = seen]
               ELSE [walk_call EXCEPT !.valid_witnesses = seen,
                                      !.best_parent = get_best_parent_of(joint)]
    /\ UNCHANGED walk_frame

\* ------------------------------------------------------- specifications
\* the whole pipeline
Next ==
    \/ \E a \in AuthorSets :
          \E ps \in ParentChoices(a), m \in MessageChoices(a), l \in LastBallChoices :
              AddJoint(ps, a, m, l)
    \/ \E u \in Units : ValidateReadyJoint(u)
    \/ MainChainWorker
    \/ BusinessWorker
    \/ FinalizationWorker

Spec == Init /\ [][Next]_vars

\* the main-chain worker fed with units of the witness coalition
NextChain ==
    \/ \E ps \in ParentSets, l \in LastBallUnits : AdmitJoint(ps, l)
    \/ MainChainWorker

SpecChain == Init /\ [][NextChain]_vars

\* the whole pipeline fed with units composed on the free units
NextLine ==
    \/ AdmitTip
    \/ MainChainWorker
    \/ BusinessWorker
    \/ FinalizationWorker

SpecLine == Init /\ [][NextLine]_vars

\* the whole pipeline fed with a line of units composed on the free units and
\* then with a second branch of units of the same authors
NextFork ==
    \/ AdmitTip
    \/ AdmitFork
    \/ MainChainWorker
    \/ BusinessWorker
    \/ FinalizationWorker

SpecFork == Init /\ [][NextFork]_vars

\* the main-chain worker fed with units of the witness coalition composed on
\* recent units
NextRecent ==
    \/ \E ps \in ParentSets : AdmitRecentJoint(ps)
    \/ MainChainWorker

SpecRecent == Init /\ [][NextRecent]_vars

\* the static properties of units signed by groups of witnesses
NextStatic == \E ps \in ParentSets, a \in WitnessGroups : AdmitGroupJoint(ps, a)

SpecStatic == Init /\ [][NextStatic]_vars

\* a node that starts with an empty cache and receives genesis and then units
\* signed by groups of witnesses
NextBoot ==
    \/ AdmitGenesis
    \/ \E ps \in ParentSets, a \in WitnessGroups : AdmitGroupJoint(ps, a)
    \/ MainChainWorker

SpecBoot == InitBoot /\ [][NextBoot]_vars

\* the main-chain worker fed with a chain of units of single witnesses
NextWitnessLine ==
    \/ \E w \in LineAuthorChoices : AdmitWitnessJoint(w)
    \/ MainChainWorker

SpecWitnessLine == Init /\ [][NextWitnessLine]_vars

\* calc_skiplist followed step by step; the call is not held up
NextSkiplist ==
    \/ CalcSkiplistEnter
    \/ GetSimilarMcisStep
    \/ CalcSkiplistReturn

SpecSkiplist == InitSkiplist /\ [][NextSkiplist]_vars /\ WF_vars(NextSkiplist)

\* finalize_joint followed step by step
NextBall ==
    \/ FinalizeEnter
    \/ CalcBallParent
    \/ CalcBallSkiplist
    \/ CalcBallHash
    \/ FinalizeStore

SpecBall == InitBall /\ [][NextBall]_vars

\* ready units validated by concurrent tasks
NextValidate ==
    \/ \E u \in DOMAIN validate_call : ValidateSerial(u)
    \/ \E u \in DOMAIN validate_call : ValidateMessage(u)
    \/ \E u \in DOMAIN validate_call : ApplyMessage(u)

SpecValidate == InitValidate /\ [][NextValidate]_vars

\* the whole pipeline up to a restart, at which the stable mirror is rebuilt
NextReplay ==
    \/ rebuild_call.pc = "idle" /\ Next
    \/ RebuildFromGenesis
    \/ RebuildFromDb

SpecReplay == Init /\ [][NextReplay]_vars

\* the calls of the KV store
NextKv ==
    \/ \E key \in Keys, joint \in StoredJoints : SaveJoint(key, joint)
    \/ \E key \in Keys, property \in StoredProperties : SaveJointProperty(key, property)
    \/ \E key \in Keys : ReadJoint(key)
    \/ \E key \in Keys : ReadJointProperty(key)

SpecKv == Init /\ [][NextKv]_vars

\* the basic validation of the recipients of a received unit
NextRecipients == ValidateRecipients

SpecRecipients == InitRecipients /\ [][NextRecipients]_vars

\* a light client asks a node for the history of an address
NextHistory == PrepareLatestHistory

SpecHistory == InitHistory /\ [][NextHistory]_vars

\* the wallet shows the history the hub answered
NextShow == ShowHistory

SpecShow == InitShow /\ [][NextShow]_vars

\* the steps in which a worker takes the unit at the head of its channel:
\* within the pipeline these are the steps of MainChainWorker, BusinessWorker
\* and FinalizationWorker, and each is possible whenever the worker runs and
\* its channel holds a unit
MainChainTakes == ~ aborted /\ ready_rx # <<>> /\ ready_rx' = Tail(ready_rx)
BusinessTakes ==
    ~ aborted /\ ~ panicked /\ stable_rx # <<>> /\ stable_rx' = Tail(stable_rx)
FinalizationTakes == ~ aborted /\ final_rx # <<>> /\ final_rx' = Tail(final_rx)

\* the whole pipeline with its three workers scheduled fairly: a worker
\* whose channel holds a unit eventually takes it
SpecFair ==
    /\ Init
    /\ [][Next]_vars
    /\ WF_ready_rx(MainChainTakes)
    /\ WF_stable_rx(BusinessTakes)
    /\ WF_final_rx(FinalizationTakes)

\* the main-chain worker fed with units of the witness coalition, each with a
\* last ball unit that is stable relative to it
NextLastBall ==
    \/ \E ps \in ParentSets, l \in Units : AdmitWithLastBall(ps, l)
    \/ MainChainWorker

SpecLastBall == Init /\ [][NextLastBall]_vars

\* the parents of a unit arrive, each handled by a task of its own, while
\* another task looks at the unit
NextParents ==
    \/ \E p \in 1..MaxLinkParents : AddParentCount(p)
    \/ \E p \in 1..MaxLinkParents : AddParentAppend(p)
    \/ CheckMissingParent

SpecParents == InitParents /\ [][NextParents]_vars

\* one call of find_relative_stable_joint, which runs on once it is called
NextWalk == WalkEnter \/ WalkLoop

SpecWalk == InitWalk /\ [][NextWalk]_vars /\ WF_vars(NextWalk)

\* ------------------------------------------------------- claims
HasMci(u) == IsValid(props[u].mci)

\* C1: once a unit has been given its mci, limci and sub_mci by
\* mark_main_chain_joint_stable, no later step changes any of the three.
C1_StableImmutable ==
    [][\A u \in Units : HasMci(u) =>
          /\ props'[u].mci = props[u].mci
          /\ props'[u].limci = props[u].limci
          /\ props'[u].sub_mci = props[u].sub_mci]_vars

\* C2: mark_main_chain_joint_stable is never called with the same mci for two
\* different units.
C2_UniqueMcUnit ==
    \A i, j \in 1..Len(promoted) :
        promoted[i][1] = promoted[j][1] => promoted[i][2] = promoted[j][2]

\* C3: two distinct units that have an mci differ in the pair (mci, sub_mci).
C3_DistinctSubMci ==
    \A a, b \in Units :
        (a # b /\ HasMci(a) /\ HasMci(b)) =>
            <<props[a].mci, props[a].sub_mci>> # <<props[b].mci, props[b].sub_mci>>

\* C4: push_stable_joint hands the units to the business worker in strictly
\* increasing (mci, sub_mci) order.
LexLess(a, b) == a[1] < b[1] \/ (a[1] = b[1] /\ a[2] < b[2])

C4_PushedInOrder ==
    \A i, j \in 1..Len(pushed) : i < j => LexLess(pushed[i], pushed[j])

\* C5: whenever the finalization worker takes a unit from its queue, the unit
\* gets its ball: every parent and every skiplist unit is sealed already, so
\* calc_skiplist and calc_ball do not fail
C5_ParentsSealed ==
    [][(final_rx # <<>> /\ final_rx' = Tail(final_rx))
           => ball'[Head(final_rx)] # NoBall]_vars

\* the units the business worker has processed, as logged
Processed == {business_log[i].unit : i \in 1..Len(business_log)}
LogOf(u) == business_log[CHOOSE i \in 1..Len(business_log) : business_log[i].unit = u]

\* C6: a unit that leaves the business worker FinalBad has left the stable
\* mirror and the last_stable_self_joint index as they were before it was
\* processed
C6_FinalBadNoEffect ==
    \A i \in 1..Len(business_log) :
        business_log[i].final = "FinalBad"
            => /\ business_log[i].state_after = business_log[i].state_before
               /\ business_log[i].self_after = business_log[i].self_before

\* C7: a unit that is NonserialBad or TempBad when the business worker
\* processes it does not change the stable mirror
C7_BadNotApplied ==
    \A i \in 1..Len(business_log) :
        business_log[i].sequence \in {"NonserialBad", "TempBad"}
            => business_log[i].state_after = business_log[i].state_before

\* C8: when stable validation of a unit fails, the tentative mirror holds no
\* output of any of its messages once the business worker has processed it
C8_TentativeReverted ==
    \A i \in 1..Len(business_log) :
        business_log[i].verdict = "Err"
            => \A k \in 1..Len(unit[business_log[i].unit].messages) :
                   <<business_log[i].unit, k>> \notin business_log[i].temp_after

\* two units of the user address that each spend the genesis output, with
\* one payment, and do not include each other
DoubleSpend(a, b) ==
    /\ a # b
    /\ unit[a].authors = {User} /\ unit[b].authors = {User}
    /\ unit[a].messages = <<GenesisOutput>> /\ unit[b].messages = <<GenesisOutput>>
    /\ a \notin AncestorsOf(b) /\ b \notin AncestorsOf(a)

\* C9: once the business worker has processed both units of a double spend,
\* exactly one of them is Good and has changed the stable mirror, and the
\* other is FinalBad
C9_OneGoodOneFinalBad ==
    \A a, b \in Processed :
        DoubleSpend(a, b)
            => \E g, f \in {a, b} :
                   /\ g # f
                   /\ LogOf(g).final = "Good"
                   /\ LogOf(g).state_after # LogOf(g).state_before
                   /\ LogOf(f).final = "FinalBad"

\* a unit that validate_ready_joint can be called on
Callable(u) ==
    /\ u \in PendingUnits
    /\ \A p \in Parents(unit, u) : IsValid(props[p].level)

\* a unit the claim of C10 names as conflicting with P
Conflicting(P, u) ==
    /\ u # P
    /\ ~ props[u].is_stable
    /\ u \notin AncestorsOf(P) /\ P \notin AncestorsOf(u)
    /\ unit[u].authors \cap unit[P].authors # {}
    /\ props[u].sequence # "FinalBad"

C11_IncludesLastSelf ==
    \A i \in 1..Len(business_log) :
        business_log[i].verdict = "Ok"
            => \A a \in unit[business_log[i].unit].authors
                          \cap DOMAIN business_log[i].self_before :
                   business_log[i].self_before[a] \in AncestorsOf(business_log[i].unit)

\* C12: when finalize_joint fails for the unit the finalization worker took
\* from its queue, the process aborts
C12_FailureAborts ==
    [][(final_rx # <<>> /\ final_rx' = Tail(final_rx)
          /\ ball'[Head(final_rx)] = NoBall) => aborted']_vars

\* the units whose static properties have been computed
Computed == {u \in Units : IsValid(props[u].level)}

\* C13: for every candidate and every end unit, the end's min_wl is above the
\* result of calc_max_alt_level exactly when it is above the result of the
\* walk over the end's past, whether or not the early return was taken
C13_EarlyReturnSameDecision ==
    \A c \in Computed \ {GENESIS}, e \in Computed :
        LvGt(props[e].min_wl, calc_max_alt_level(unit, props, c, e))
            <=> LvGt(props[e].min_wl, restricted_max_alt_level(unit, props, c, e))

\* the early return is taken where the walk over the end's past would have
\* given a lower level
C13_Witness ==
    \E c \in Computed \ {GENESIS}, e \in Computed :
        /\ LvGt(props[e].min_wl, max_alt_level_possible(unit, props, c, e))
        /\ restricted_max_alt_level(unit, props, c, e)
               < max_alt_level_possible(unit, props, c, e)

\* the best-parent chain from unit j down to genesis
RECURSIVE BestParentChain(_)
BestParentChain(j) ==
    IF j = NoUnit THEN <<>> ELSE <<j>> \o BestParentChain(props[j].best_parent_unit)

\* the witnesses among the authors of the first k units of a chain
WitnessesUpTo(ch, k) == UNION {unit[ch[i]].authors \cap MY_WITNESSES : i \in 1..k}

\* the first unit of the best-parent chain from best_parent(u) at which the
\* witnesses seen so far are a majority
RelativeStablePoint(u) ==
    LET ch == BestParentChain(props[u].best_parent_unit)
    IN  ch[Min({k \in 1..Len(ch) :
                    Cardinality(WitnessesUpTo(ch, k)) >= MAJORITY_OF_WITNESSES})]

\* C14: for every unit with a best parent, find_relative_stable_joint returns
\* the first unit of the best-parent chain from best_parent(u) at which the
\* distinct witnesses seen so far reach the majority; wl(u) is the level of
\* that unit and min_wl(u) is its wl
C14_RelativeStablePoint ==
    \A u \in Computed \ {GENESIS} :
        /\ find_relative_stable_joint(unit, props, props[u].best_parent_unit)
               = RelativeStablePoint(u)
        /\ props[u].wl = props[RelativeStablePoint(u)].level
        /\ props[u].min_wl = props[RelativeStablePoint(u)].wl

\* a unit whose relative-stable point is neither its best parent nor genesis
C14_Witness ==
    \E u \in Computed \ {GENESIS} :
        RelativeStablePoint(u) \notin {props[u].best_parent_unit, GENESIS}

\* the relative-stable point of a unit; genesis is its own
RspOf(u) == IF u = GENESIS THEN GENESIS ELSE RelativeStablePoint(u)

\* the relative-stable point of u is another unit than that of its best parent
RspAdvanced(u) == RspOf(u) # RspOf(props[u].best_parent_unit)

\* C15: is_min_wl_increased(u) is true when, and only when, the
\* relative-stable point of u has advanced with respect to the one of its
\* best parent
C15_FlagIffAdvanced ==
    \A u \in Computed \ {GENESIS} : props[u].is_min_wl_increased <=> RspAdvanced(u)

\* C15, amended: is_min_wl_increased(u) is true exactly when the wl of the
\* relative-stable point of u is above the wl of the relative-stable point of
\* its best parent; the flag is raised only when the point has advanced, but a
\* point may advance to a unit of the same wl and leave the flag down
C15_FlagIffWlOfPointRaised ==
    \A u \in Computed \ {GENESIS} :
        /\ props[u].is_min_wl_increased
               <=> props[RspOf(u)].wl > props[RspOf(props[u].best_parent_unit)].wl
        /\ props[u].is_min_wl_increased => RspAdvanced(u)

\* a unit with the flag raised and a unit whose point advanced with the flag
\* down
C15_Witness ==
    /\ \E u \in Computed \ {GENESIS} : props[u].is_min_wl_increased
    /\ \E u \in Computed \ {GENESIS} : RspAdvanced(u) /\ ~ props[u].is_min_wl_increased

\* a is before b under the key (-wl, level, unit hash)
KeyBefore(a, b) ==
    \/ props[a].wl > props[b].wl
    \/ props[a].wl = props[b].wl /\ props[a].level < props[b].level
    \/ props[a].wl = props[b].wl /\ props[a].level = props[b].level
           /\ UnitHash(a) < UnitHash(b)

\* the units of S that are before every other unit of S
KeyMinima(S) == {m \in S : \A o \in S \ {m} : KeyBefore(m, o)}

\* C16: the best parent of a unit is one of its parents and the only minimum
\* of its parents under the key (-wl, level, unit hash); find_best_joint
\* returns that minimum of any non-empty set of units in whatever order it
\* iterates, and nothing for the empty set
C16_BestParentIsKeyMin ==
    /\ \A u \in Computed \ {GENESIS} :
           /\ props[u].best_parent_unit \in Parents(unit, u)
           /\ KeyMinima(Parents(unit, u)) = {props[u].best_parent_unit}
    /\ \A S \in {T \in SUBSET Computed : Cardinality(T) <= MaxCandidates} :
           \A q \in Orderings(S) :
               IF S = {} THEN find_best_joint(props, q) = NoUnit
               ELSE KeyMinima(S) = {find_best_joint(props, q)}

\* a unit whose parents have the same wl and the same level, and whose best
\* parent is not the parent that arrived first
C16_Witness ==
    \E u \in Computed \ {GENESIS} :
        /\ \E a, b \in Parents(unit, u) :
               a # b /\ props[a].wl = props[b].wl /\ props[a].level = props[b].level
        /\ props[u].best_parent_unit # Min(Parents(unit, u))

\* C17: the level of genesis is 0; the level of every other unit whose
\* properties have been computed is one above the highest level of its
\* parents, so every parent is strictly below its child
C17_LevelAboveParents ==
    \A u \in Computed :
        IF u = GENESIS THEN props[u].level = 0
        ELSE /\ \E p \in Parents(unit, u) : props[u].level = props[p].level + 1
             /\ \A p \in Parents(unit, u) :
                    IsValid(props[p].level) /\ props[p].level < props[u].level

\* a unit with two parents of different levels
C17_Witness ==
    \E u \in Computed :
        \E a, b \in Parents(unit, u) : props[a].level < props[b].level

\* the unit was promoted as the main-chain unit of the mci it has; genesis
\* is the main-chain unit of mci 0 from the start
PromotedAtOwnMci(u) ==
    \/ u = GENESIS
    \/ \E i \in 1..Len(promoted) : promoted[i] = <<props[u].mci, u>>

\* C18: for every unit with an mci, limci <= mci; limci = mci exactly for the
\* units promoted as the main-chain unit of their mci; the limci of every
\* other such unit is the largest limci of its parents and is below its mci
C18_LimciBelowMci ==
    \A u \in Units :
        HasMci(u) =>
            /\ props[u].limci <= props[u].mci
            /\ props[u].limci = props[u].mci <=> PromotedAtOwnMci(u)
            /\ ~ PromotedAtOwnMci(u) =>
                   /\ props[u].limci = Max({props[p].limci : p \in Parents(unit, u)})
                   /\ props[u].limci < props[u].mci

\* C19: for two distinct units with computed properties, the comparison of
\* a with b is Greater exactly when b is an ancestor of a, and Less exactly
\* when a is an ancestor of b
C19_CompareIsAncestry ==
    \A a, b \in Computed :
        a # b =>
            /\ joint_partial_cmp(unit, props, a, b) = "Greater" <=> b \in AncestorsOf(a)
            /\ joint_partial_cmp(unit, props, a, b) = "Less" <=> a \in AncestorsOf(b)

\* the order of the steps of one unit: it has its mci when the business
\* worker has processed it, and it has been processed when it has a ball; it
\* is stable only with a ball
LifecycleOrder(u) ==
    /\ u \in Processed => HasMci(u)
    /\ ball[u] # NoBall => u \in Processed
    /\ props[u].is_stable => ball[u] # NoBall

\* C20: a valid mci never becomes invalid, is_stable is never cleared, a ball
\* is never taken away, and every unit other than genesis goes through
\* mci assigned, business processed, ball and is_stable in this order
C20_LifecycleMonotone ==
    /\ [](\A u \in Units \ {GENESIS} : LifecycleOrder(u))
    /\ [][\A u \in Units :
              /\ HasMci(u) => IsValid(props'[u].mci)
              /\ props[u].is_stable => props'[u].is_stable
              /\ ball[u] # NoBall => ball'[u] = ball[u]]_vars

\* a unit other than genesis has gone through the whole lifecycle
C20_Witness ==
    \E u \in Units \ {GENESIS} :
        HasMci(u) /\ u \in Processed /\ ball[u] # NoBall /\ props[u].is_stable

\* C21: when genesis is the only unit of the cache and the main-chain worker
\* has taken it from its channel, genesis has mci 0 and is the main-chain
\* unit of mci 0, the last stable joint
C21_GenesisBootstrap ==
    (Units = {GENESIS} /\ ready_rx = <<>>) =>
        /\ props[GENESIS].mci = 0
        /\ is_on_main_chain(props, GENESIS)
        /\ 0 \in DOMAIN mc_unit_hash /\ mc_unit_hash[0] = GENESIS

\* any seven units in a row among the units 1..n have seven different authors
DistinctLine(n) ==
    \A i, j \in 1..n :
        (i < j /\ j - i < MAJORITY_OF_WITNESSES) => unit[i].authors # unit[j].authors

\* the main-chain worker has handled every unit up to unit n, the last one
HandledUpTo(n) == NextUnit = n + 1 /\ ready_rx = <<>>

\* C22 as stated: when seven units of seven different witnesses have been
\* posted as one chain on genesis and the worker has handled the seventh, the
\* min_wl of the seventh is above the level of the stable point, genesis,
\* and the child of genesis has mci 1
C22_SeventhAdvances ==
    (HandledUpTo(MAJORITY_OF_WITNESSES) /\ DistinctLine(MAJORITY_OF_WITNESSES)) =>
        /\ LvGt(props[MAJORITY_OF_WITNESSES].min_wl, props[GENESIS].level)
        /\ props[1].mci = 1

\* C22: in a chain of units of single witnesses on genesis nothing is
\* promoted before the unit 2 * MAJORITY_OF_WITNESSES + 1 = 15 is handled;
\* when any seven units in a row have different authors, wl(n) = max(n - 7, 0)
\* and min_wl(n) = max(n - 14, 0), so the 15th unit is the first whose min_wl
\* is above the level of the stable point, and when it has been handled the
\* child of genesis is the main-chain unit of mci 1
C22_FifteenthAdvances ==
    /\ NextUnit <= 2 * MAJORITY_OF_WITNESSES => promoted = <<>>
    /\ \A n \in Units \ {GENESIS} :
           DistinctLine(n) =>
               /\ props[n].wl = Max({n - MAJORITY_OF_WITNESSES, 0})
               /\ props[n].min_wl = Max({n - 2 * MAJORITY_OF_WITNESSES, 0})
    /\ (HandledUpTo(2 * MAJORITY_OF_WITNESSES + 1)
            /\ DistinctLine(2 * MAJORITY_OF_WITNESSES + 1)) =>
           /\ LvGt(props[2 * MAJORITY_OF_WITNESSES + 1].min_wl, props[GENESIS].level)
           /\ props[1].mci = 1
           /\ is_on_main_chain(props, 1)
           /\ promoted = <<<<1, 1>>>>

\* the 15th unit of a chain of different witnesses has been handled
C22_Witness ==
    /\ HandledUpTo(2 * MAJORITY_OF_WITNESSES + 1)
    /\ DistinctLine(2 * MAJORITY_OF_WITNESSES + 1)
    /\ props[1].mci = 1

\* the powers of ten up to the first one above MaxMci
Devisors == {10, 100, 1000, 10000}

\* the main-chain units at mci - d for the powers of ten d that divide mci
UnitsBelow(mci) ==
    {mc_unit_hash[mci - d] : d \in {e \in Devisors : mci > 0 /\ mci % e = 0}}

\* a sequence in ascending order of hash
AscendingByHash(q) == \A i \in 1..(Len(q) - 1) : HashKey(q[i]) < HashKey(q[i + 1])

\* C23: every call of calc_skiplist returns; for a main-chain unit of mci m
\* it returns the main-chain units at m - d for the powers of ten d that
\* divide m, each once, in ascending order of hash, and the empty list for a
\* unit off the main chain, for m = 0 and for m not divisible by 10
C23_Skiplist ==
    /\ [](skiplist_call.pc = "done" =>
             LET j == skiplist_call.joint
                 m == props[j].mci
                 expected == IF is_on_main_chain(props, j) THEN UnitsBelow(m) ELSE {}
             IN  /\ skiplist_call.ok
                 /\ Elements(skiplist_call.skiplist) = expected
                 /\ AscendingByHash(skiplist_call.skiplist)
                 /\ calc_skiplist(props, mc_unit_hash, j) = [ok |-> TRUE, units |-> expected]
                 /\ (~ is_on_main_chain(props, j) \/ m = 0 \/ m % 10 # 0)
                        => skiplist_call.skiplist = <<>>)
    /\ <>(skiplist_call.pc = "done")

\* the skiplist of the main-chain unit of mci 100 has been computed
C23_Witness ==
    /\ skiplist_call.pc = "done"
    /\ skiplist_call.joint = 100
    /\ is_on_main_chain(props, 100)
    /\ Len(skiplist_call.skiplist) = 2

\* C24 as stated: the skiplist of the main-chain unit of mci 1000 holds the
\* main-chain units of mci 900 and 0 and no others, the one of the main-chain
\* unit of mci 999 is empty
C24_SkiplistOfThousand ==
    skiplist_call.pc = "done" =>
        /\ skiplist_call.joint = 1000 =>
               Elements(skiplist_call.skiplist) = {mc_unit_hash[900], mc_unit_hash[0]}
        /\ skiplist_call.joint = 999 => skiplist_call.skiplist = <<>>

\* C24: the skiplist of the main-chain unit of mci 1000 holds the main-chain
\* units of mci 990, 900 and 0 and no others, the one of the main-chain unit
\* of mci 999 is empty
C24_SkiplistOfThousandWithTens ==
    skiplist_call.pc = "done" =>
        /\ skiplist_call.joint = 1000 =>
               /\ Elements(skiplist_call.skiplist)
                      = {mc_unit_hash[990], mc_unit_hash[900], mc_unit_hash[0]}
               /\ Len(skiplist_call.skiplist) = 3
        /\ skiplist_call.joint = 999 => skiplist_call.skiplist = <<>>

\* the skiplist of the main-chain unit of mci 1000 has been computed
C24_Witness ==
    /\ skiplist_call.pc = "done"
    /\ skiplist_call.joint = 1000
    /\ is_on_main_chain(props, 1000)
    /\ skiplist_call.similar_mcis = <<990, 900, 0>>

\* the ascending sequence of the balls of a set of units
BallsOf(S) ==
    CHOOSE q \in Orderings({BallRef(ball[x]) : x \in S}) :
        \A i \in 1..(Len(q) - 1) : BallKey(q[i]) < BallKey(q[i + 1])

\* the skiplist units of the unit j, from the mci index alone
SkiplistUnitsOf(j) == IF is_on_main_chain(props, j) THEN UnitsBelow(props[j].mci) ELSE {}

\* C25: the ball finalize_joint computes for a unit is the hash of the unit,
\* the set of the balls of its parents, the set of the balls of its skiplist
\* units and the flag sequence # Good, whatever the order in which the
\* parents were appended; the call of calc_ball of the worker computes the
\* same ball
C25_BallOfSets ==
    ball_call.pc \in {"store", "done"} =>
        LET j == ball_call.joint
            expected == calc_ball_hash(j, BallsOf(Parents(unit, j)),
                                       BallsOf(SkiplistUnitsOf(j)),
                                       props[j].sequence # "Good")
        IN  /\ ball_call.ball = expected
            /\ ball_call.ball.bad <=> props[j].sequence # "Good"
            /\ calc_ball(unit, props, ball, j, SkiplistUnitsOf(j)).ball = expected

\* the ball of a unit with three parents, appended in another order than
\* the order of their balls, and with a skiplist unit has been computed
C25_Witness ==
    /\ ball_call.pc = "done"
    /\ Len(ball_call.parents) = MaxBallParents
    /\ ball_call.parent_balls # ball_call.ball.parent_balls
    /\ ball_call.skiplist # <<>>
    /\ ball_call.ball.bad

\* C26: finalize_joint of a unit whose parents and skiplist units have balls
\* does not fail, whatever ball the unit carried; afterwards the joint of the
\* cache carries the computed ball, the ball index leads from the computed
\* ball to the unit, and the unit is stable
C26_ComputedBallWins ==
    /\ ball_call.pc # "failed"
    /\ ball_call.pc = "done" =>
           LET j == ball_call.joint
           IN  /\ ball[j] = calc_ball(unit, props, ball, j, SkiplistUnitsOf(j)).ball
               /\ ball[j] = ball_call.ball
               /\ ball[j] \in DOMAIN ball_unit_hash
               /\ ball_unit_hash[ball[j]] = j
               /\ props[j].is_stable

\* a unit that carried another ball than the computed one has been finalized
C26_Witness ==
    /\ ball_call.pc = "done"
    /\ ball_call.stored_ball # NoBall
    /\ ball_call.stored_ball # ball_call.ball

\* the task of unit u has validated or applied a message of u and has yet to
\* apply a message of u
MidUnit(u) ==
    \/ validate_call[u].pc = "apply"
    \/ /\ validate_call[u].pc = "validate"
       /\ 1 < validate_call[u].i
       /\ validate_call[u].i <= Len(unit[u].messages)

\* C27: while units are validated concurrently by validate_unstable_joint,
\* the tentative mirror does not change between the validation of a message
\* of unit u and its application, nor between two messages of u, other than
\* by the messages of u; a message is applied only to a state in which it is
\* valid, and apply_message does not fail
C27_LockHeldForUnit ==
    \A u \in DOMAIN validate_call :
        /\ MidUnit(u) => temp_business_state = validate_call[u].seen
        /\ validate_call[u].pc = "apply" =>
               validate_message(temp_business_state, unit, u, validate_call[u].i)
        /\ validate_call[u].result # "Err"

\* C28: a rebuild of the business state from the stored stable units, by
\* rebuild_from_genesis or by rebuild_from_db, succeeds and yields the stable
\* mirror the business worker had produced from the same units
C28_ReplayEqualsLive ==
    rebuild_call.pc # "idle" =>
        /\ rebuild_call.ok
        /\ rebuild_call.business_state = rebuild_call.live

\* the JSON text of a value of the table
JsonOf(table, value) ==
    IF table = "joints" THEN joint_to_string(value) ELSE property_to_string(value)

RECURSIVE SumOfShares(_)
SumOfShares(recipients) ==
    IF recipients = <<>> THEN U32(0)
    ELSE wide_add(Head(recipients).share, SumOfShares(Tail(recipients)))

\* what the recipients of a unit have to satisfy
RecipientsValid(authors, recipients) ==
    \/ recipients = <<>> /\ authors <= 1
    \/ /\ recipients # <<>>
       /\ \A i \in 1..(Len(recipients) - 1) :
              recipients[i].address < recipients[i + 1].address
       /\ \A i \in 1..Len(recipients) : is_chash_valid(recipients[i].address)
       /\ SumOfShares(recipients) = U32(100)

\* C30: validate_headers_commission_recipients accepts a unit exactly when
\* its recipient list is empty and it has at most one author, or the list is
\* not empty, its addresses ascend strictly and carry valid checksums, and
\* its shares sum to 100; a unit of two authors without recipients is
\* rejected
C30_RecipientsAcceptedIff ==
    recipients_call.pc = "done" =>
        /\ recipients_call.result = "Ok" <=>
               RecipientsValid(recipients_call.authors, recipients_call.recipients)
        /\ recipients_call.authors > 1 /\ recipients_call.recipients = <<>> =>
               recipients_call.result = "Err"

\* C31: get_stable_history returns at most num transactions for every
\* request, for every num >= 0, num = 0 included.
C31_AtMostNum ==
    (history_call.pc = "done" /\ history_call.result = "Ok") =>
        Len(history_call.txs) <= history_call.num

\* C32: an outbound entry (to_addr other than the wallet address) of amount
\* a > 0 is shown with the negative amount -a, for every a of 64 bits: the
\* command ends without a panic and the amount shown is negative, of the
\* magnitude of a as an f64 carries it.
C32_OutboundShownNegative ==
    (/\ show_call.pc = "done"
     /\ show_call.transactions[1].to_addr # show_call.address
     /\ show_call.transactions[1].amount # U64Zero) =>
        /\ show_call.result = "Ok"
        /\ show_call.shown =
               <<[negative |-> TRUE,
                  magnitude |-> as_f64(show_call.transactions[1].amount).magnitude]>>

Finalized(u) ==
    /\ u \in Units
    /\ \E i \in 1..Len(business_log) : business_log[i].unit = u
    /\ ball[u] # NoBall
    /\ props[u].is_stable

\* C34: with the three workers scheduled fairly, every unit that has been
\* given an mci is eventually handled by the business worker and finalized:
\* it has a ball and is_stable = true.
C34_EventuallyFinalized ==
    \A u \in 1..MaxUnits : (u \in Units /\ HasMci(u)) ~> Finalized(u)

\* C37: the comparison of two distinct units never comes to unreachable!():
\* the business worker never panics in its check that a unit is above the
\* last stable self joint of each of its authors, and the check of the unit
\* it is about to take does not come to unreachable!() either.
C37_ComparisonNeverUnreachable ==
    /\ ~ panicked
    /\ stable_rx # <<>> =>
           is_include_last_stable_self_joint(unit, props, last_stable_self_joint,
                                             Head(stable_rx)) # "Unreachable"

\* the level of the main-chain unit with the highest mci, MINIMUM without one
HighestMcLevel ==
    IF DOMAIN mc_unit_hash = {} THEN MINIMUM
    ELSE props[mc_unit_hash[Max(DOMAIN mc_unit_hash)]].level

\* C35: whenever the main-chain worker is at the start of an iteration of its
\* loop, last_stable_level is the level of the main-chain unit with the
\* highest mci (MINIMUM when there is none), and no iteration lowers it, one
\* whose update_main_chain promotes nothing included.
C35_StableLevelTracksMainChain ==
    /\ [](~ aborted => last_stable_level = HighestMcLevel)
    /\ [][~ LvLt(last_stable_level', last_stable_level)]_vars

\* C36: the main-chain worker never comes to its "we can't proceed" abort:
\* when it has handled a unit that was admitted with a last ball unit stable
\* relative to it, the stable level is at least the level of that last ball
\* unit.
C36_NeverCannotProceed ==
    /\ [](~ aborted)
    /\ [][(ready_rx # <<>> /\ ready_rx' = Tail(ready_rx)) =>
              LvGe(last_stable_level', props[unit[Head(ready_rx)].last_ball_unit].level)]_vars

\* C38: whenever is_missing_parent() returns false, the parents list holds
\* every unit named in parent_units: at every moment, and for every task
\* that was told that no parent is missing.
C38_NotMissingMeansLinked ==
    parent_call.pc = "linking" =>
        /\ ~ is_missing_parent(parent_call) =>
               Elements(parent_call.parents) = parent_call.parent_units
        /\ ~ parent_call.seen.missing =>
               parent_call.seen.parents = parent_call.parent_units

\* the witnesses among the authors of the units from genesis up to unit u
WalkWitnessesUpTo(u) == UNION {walk_call.authors[i] \cap MY_WITNESSES : i \in 0..u}

\* C39 as stated: find_relative_stable_joint terminates for every unit,
\* whatever the authors of genesis are.
C39_TerminatesForAnyGenesis == <>(walk_call.pc = "done")

\* C39: find_relative_stable_joint terminates for every unit of a DAG whose
\* genesis is authored by at least MAJORITY_OF_WITNESSES of the witnesses.
C39_TerminatesForMajorityGenesis ==
    Cardinality(walk_call.authors[GENESIS] \cap MY_WITNESSES) >= MAJORITY_OF_WITNESSES
        => <>(walk_call.pc = "done")

\* the walk has come down to genesis, past units that carry no majority of
\* witnesses, and has ended there
C39_Witness ==
    /\ walk_call.pc = "done"
    /\ walk_call.best_parent.unit = GENESIS
    /\ walk_call.self > GENESIS + 1
    /\ majority_reached(walk_call.authors[GENESIS] \cap MY_WITNESSES)
    /\ Cardinality(WalkWitnessesUpTo(walk_call.self - 1)
                       \ walk_call.authors[GENESIS]) > 0

\* what get_stable_history reads of the stable mirror for an address: the
\* unit recorded in last_stable_self_joint, and of each unit its authors in
\* the order of the unit
StableView(address) ==
    [related_joints |-> <<>>,
     last |-> IF address \in DOMAIN last_stable_self_joint
              THEN last_stable_self_joint[address] ELSE NoUnit,
     units |-> [u \in Units |->
                   [authors |-> SortBy(unit[u].authors, [a \in unit[u].authors |-> a]),
                    outputs |-> <<>>, related_units |-> <<>>, prev_self |-> NoUnit]]]

\* C40: for every address a whose last stable self joint is a unit the
\* business worker has applied, that unit has a as its first author, and
\* get_stable_history(a) does not panic.
C40_LastSelfJointFirstAuthor ==
    \A a \in DOMAIN last_stable_self_joint :
        last_stable_self_joint[a] # GENESIS =>
            /\ Min(unit[last_stable_self_joint[a]].authors) = a
            /\ get_stable_history(StableView(a), a, DefaultNum).result # "Panic"

====
